---- MODULE Spec2Model ----
(***************************************************************************)
(* Live quiz session engine: the host pages (GameLobby, GamePlay) of one   *)
(* game session, the stored session row (game_sessions), the sync          *)
(* broadcast channel and the per-page countdown / polling intervals.       *)
(*                                                                         *)
(* A "page" is one mounted instance of the GamePlay component.  Handlers   *)
(* are async: every await is a step boundary, and a handler keeps the      *)
(* values of the render it was created in (its closure) across awaits.     *)
(***************************************************************************)
EXTENDS Integers, FiniteSets, Sequences, Bags, TLC

(* ---- bounds ---- *)
MaxQuestions == 2      \* quizzes have 0..MaxQuestions questions
MaxPages == 1          \* GamePlay component instances (tabs) of the session
MaxCmds == 4           \* commands from outside: the host opening or reloading the
                       \* page or clicking a button, a player submitting an answer
MaxFailures == 1       \* store requests that fail with a transport error
MaxPlayers == 1        \* players that joined the session
MaxPolls == 1          \* answer-stats refreshes of a page in flight at a time
MaxCount == 40         \* counts and totals a render is given
MaxBoard == 6          \* players of a leaderboard
MaxRight == 1          \* correct answers of a player of a leaderboard
MaxTime == 1           \* total time taken of a player of a leaderboard
MaxSummaryPlayers == 2 \* players of a post-game summary
MaxJoiners == 2        \* players who join a lobby
MaxQuizzes == 1        \* quizzes created in the store
MaxEditorQuestions == 2 \* questions of a quiz in the editor
MaxEditorOptions == 3  \* options of a question in the editor

(* ---- program constants ---- *)
MinTimeLimit == 5      \* CreateQuiz validation: 5 <= timeLimit
NotStarted == -1       \* useState(-1): "-1 means not started"
Null == -2             \* encoding of SQL null in current_question_index
Undefined == -3        \* encoding of a missing argument (JS undefined / NaN)
MinOptions == 2        \* CreateQuiz validation: options.length >= 2
PointsPerCorrect == 100 \* calculateScore: fixed score of a correct answer
NoPrefix == -1         \* a stats key that is a bare option id (no q<i>_ prefix)
MaxOptions == 10       \* addOption: question.options.length >= 10
TopCount == 5          \* .slice(0, 5) of the in-game leaderboard

Pages == 1..MaxPages
\* the GamePlay instance of a signed-in user who is not the session's host
Visitor == 0
AllPages == Pages \cup {Visitor}
\* question indexes a broadcast payload can carry
QIdx == 0..MaxQuestions

VARIABLES
    N,          \* number of questions of the session's quiz
    store,      \* the game_sessions row: [status, cqi]
    ui,         \* React state of each GamePlay instance
    refs,       \* useRef values of each instance: timerRef, pollingRef
    intervals,  \* armed setInterval handles: id -> [page, kind, q, time, cap]
    tasks,      \* bag of in-flight async handlers / timeouts
    bcast,      \* number of messages published on game_<id>_sync, per event
    lobbyToast, \* GameLobby showed "Error starting game"
    cmds,       \* commands from outside so far
    failures,   \* failed store requests so far
    resumeLeft, \* history: what the countdown showed when the page was reloaded
    NP,         \* number of players of the session (game_players rows)
    answers,    \* the game_answers rows of the session: [player, q, opt]
    shown,      \* what a render computed for display from the values it was given
    createQuiz, \* the CreateQuiz page: React state and the saveQuiz call in flight
    quizzes,    \* stored quizzes: the question rows of each, a row being its options' is_correct
    lobby       \* the GameLobby page's player list, its fetch, and the game_players rows

vars == <<N, store, ui, refs, intervals, tasks, bcast, lobbyToast, cmds, failures,
          resumeLeft, NP, answers, shown, createQuiz, quizzes, lobby>>

(* time_limit of question i (distinct per question) *)
TimeLimit(i) == MinTimeLimit + i

Mounted == {"loading", "ready"}

(* ---- quiz data: every question has MinOptions options, the first correct ---- *)
OptionId(i, k) == i * MinOptions + k
Options(i) == {OptionId(i, k) : k \in 1..MinOptions}
IsCorrect(o) == o % MinOptions = 1
Players == 1..NP

(* answerStats keys: `q${i}_${option.id}` is <<i, id>>, a bare option id is *)
(* <<NoPrefix, id>>                                                        *)
UniqueKey(i, o) == <<i, o>>

InitUi == [phase |-> "unused", cqi |-> NotStarted, timeLeft |-> 0,
           showResults |-> FALSE, isCalc |-> FALSE, gameEnded |-> FALSE,
           isPolling |-> FALSE, toast |-> "",
           answerStats |-> <<>>, totalAnswers |-> 0, score |-> <<>>]

NothingShown == [view |-> "none"]

(* the GameLobby page before it is opened: rows are the ids of the stored *)
(* game_players rows, read what the players select returned, inflight the *)
(* INSERT notifications on their way to the page                          *)
ClosedLobby == [phase |-> "closed", subscribed |-> FALSE, pc |-> "idle",
                rows |-> {}, read |-> {}, inflight |-> {}, players |-> <<>>]

(* the CreateQuiz page: not open, no save running                         *)
(* (before is history: the quiz's stored question rows when the save began) *)
NoSave == [pc |-> "idle", isEditing |-> FALSE, quiz |-> 0, questions |-> <<>>, k |-> 0,
           before |-> <<>>]

ClosedEditor == [phase |-> "closed", isEditing |-> FALSE, quizId |-> 0,
                 filled |-> FALSE, questions |-> <<>>, loading |-> FALSE,
                 leaving |-> FALSE, save |-> NoSave]

InitBcast == [game_started |-> 0, game_ended |-> 0,
              question_started |-> [q \in QIdx |-> 0],
              question_changed |-> [q \in QIdx |-> 0],
              time_up |-> [q \in QIdx |-> 0]]

Init ==
    /\ N \in 0..MaxQuestions
    /\ store = [status |-> "waiting", cqi |-> Null]
    /\ ui = [p \in AllPages |-> InitUi]
    /\ refs = [p \in AllPages |-> [timerRef |-> 0, pollingRef |-> 0]]
    /\ intervals = <<>>
    /\ tasks = EmptyBag
    /\ bcast = InitBcast
    /\ lobbyToast = FALSE
    /\ cmds = 0
    /\ failures = 0
    /\ resumeLeft = [p \in AllPages |-> 0]
    /\ NP \in 0..MaxPlayers
    /\ answers = {}
    /\ shown = NothingShown
    /\ createQuiz = ClosedEditor
    /\ quizzes = <<>>
    /\ lobby = ClosedLobby

(* ---- sequential code over a bundle of the page-side state ---- *)
S == [ui |-> ui, refs |-> refs, iv |-> intervals, bc |-> bcast]

Apply(s) ==
    /\ ui' = s.ui
    /\ refs' = s.refs
    /\ intervals' = s.iv
    /\ bcast' = s.bc

(* setX(v): a state update of an unmounted component is dropped *)
SetUi(s, p, f, v) ==
    IF s.ui[p].phase \in Mounted THEN [s EXCEPT !.ui[p][f] = v] ELSE s

(* clearInterval(h): cancels handle h, no effect for null or a dead handle *)
ClearInterval(iv, h) == [i \in (DOMAIN iv) \ {h} |-> iv[i]]

(* the reset of timerRef without its clearInterval *)
ClearTimerRef_KeepsInterval(s, p) ==
    [s EXCEPT !.refs[p].timerRef = 0]

(* if (timerRef.current) { clearInterval(timerRef.current); timerRef.current = null } *)
ClearTimerRef(s, p) ==
    [s EXCEPT !.iv = ClearInterval(@, s.refs[p].timerRef),
              !.refs[p].timerRef = 0]

StopStatsPolling(s, p) ==
    SetUi([s EXCEPT !.iv = ClearInterval(@, s.refs[p].pollingRef),
                    !.refs[p].pollingRef = 0],
          p, "isPolling", FALSE)

(* setInterval returns a handle that is not in use; which one is immaterial *)
FreshHandle(iv) == CHOOSE h \in 1..(Cardinality(DOMAIN iv) + 1) : h \notin DOMAIN iv

SetInterval(s, p, kind, q, time, cap) ==
    [s EXCEPT !.iv = @ @@ (FreshHandle(s.iv) :> [page |-> p, kind |-> kind, q |-> q,
                                                 time |-> time, cap |-> cap])]

StartStatsPolling(s, p, q, cap) ==
    LET s1 == [s EXCEPT !.iv = ClearInterval(@, s.refs[p].pollingRef),
                        !.refs[p].pollingRef = 0]
        s2 == SetUi(s1, p, "isPolling", TRUE)
        s3 == SetInterval(s2, p, "poll", q, 0, cap)
    IN  [s3 EXCEPT !.refs[p].pollingRef = FreshHandle(s2.iv)]

Publish(s, ev) == [s EXCEPT !.bc[ev] = @ + 1]
PublishQ(s, ev, q) == [s EXCEPT !.bc[ev][q] = @ + 1]

(* startTimer without its setTotalAnswers(0) *)
StartTimer_KeepsTotal(s, p, capN, cap, questionIndex, seconds) ==
    LET s1 == StopStatsPolling(ClearTimerRef(s, p), p)
    IN  IF questionIndex \notin 0..(capN - 1)
        THEN s1
        ELSE LET freshStats == [k \in {UniqueKey(questionIndex, o) :
                                          o \in Options(questionIndex)} |-> 0]
                 s2 == SetUi(SetUi(SetUi(SetUi(s1, p, "timeLeft", seconds),
                                         p, "showResults", FALSE),
                                   p, "isCalc", FALSE),
                             p, "answerStats", freshStats)
                 s3 == StartStatsPolling(s2, p, questionIndex, cap)
                 s4 == PublishQ(s3, "question_started", questionIndex)
                 s5 == SetInterval(s4, p, "timer", questionIndex, seconds, cap)
             IN  [s5 EXCEPT !.refs[p].timerRef = FreshHandle(s4.iv)]

(* startTimer(questionIndex, seconds) run in a closure whose questions      *)
(* array has capN entries and whose currentQuestionIndex is cap            *)
StartTimer(s, p, capN, cap, questionIndex, seconds) ==
    LET s1 == StopStatsPolling(ClearTimerRef(s, p), p)
    IN  IF questionIndex \notin 0..(capN - 1)
        THEN s1
        ELSE LET freshStats == [k \in {UniqueKey(questionIndex, o) :
                                          o \in Options(questionIndex)} |-> 0]
                 s2 == SetUi(SetUi(SetUi(SetUi(SetUi(s1, p, "timeLeft", seconds),
                                               p, "showResults", FALSE),
                                         p, "isCalc", FALSE),
                                   p, "answerStats", freshStats),
                             p, "totalAnswers", 0)
                 s3 == StartStatsPolling(s2, p, questionIndex, cap)
                 s4 == PublishQ(s3, "question_started", questionIndex)
                 s5 == SetInterval(s4, p, "timer", questionIndex, seconds, cap)
             IN  [s5 EXCEPT !.refs[p].timerRef = FreshHandle(s4.iv)]

(* refreshAnswerStats(questionIndex) after its select has answered, run in *)
(* a closure whose currentQuestionIndex is cap: the tally is rebuilt from  *)
(* the stored rows and shown only if questionIndex is the closure's index  *)
RebuiltStats(i) ==
    [k \in {UniqueKey(i, o) : o \in Options(i)}
        |-> Cardinality({a \in answers : a.q = i /\ a.opt = k[2]})]

RebuiltTotal(i) == Cardinality({a \in answers : a.q = i})

(* refreshAnswerStats without its setTotalAnswers(total) *)
RefreshAnswerStats_NoTotal(s, p, questionIndex, cap) ==
    IF questionIndex < 0 \/ questionIndex >= N \/ questionIndex # cap
    THEN s
    ELSE SetUi(s, p, "answerStats", RebuiltStats(questionIndex))

RefreshAnswerStats(s, p, questionIndex, cap) ==
    IF questionIndex < 0 \/ questionIndex >= N \/ questionIndex # cap
    THEN s
    ELSE SetUi(SetUi(s, p, "answerStats", RebuiltStats(questionIndex)),
               p, "totalAnswers", RebuiltTotal(questionIndex))

(* the two push handlers of subscribeToAnswers; both were created in the   *)
(* first render, so the currentQuestionIndex they compare with is -1       *)
BumpStats(s, p, a) ==
    LET k == UniqueKey(a.q, a.opt)
        s1 == IF k \in DOMAIN s.ui[p].answerStats
              THEN SetUi(s, p, "answerStats",
                         [s.ui[p].answerStats EXCEPT ![k] = @ + 1])
              ELSE s
    IN  SetUi(s1, p, "totalAnswers", s1.ui[p].totalAnswers + 1)

OnAnswerInsert(s, p, a) ==
    LET s1 == IF IsCorrect(a.opt) /\ a.player \in DOMAIN s.ui[p].score
              THEN SetUi(s, p, "score",
                         [s.ui[p].score EXCEPT ![a.player] = @ + PointsPerCorrect])
              ELSE s
    IN  IF a.q = NotStarted THEN BumpStats(s1, p, a) ELSE s1

OnAnswerBroadcast(s, p, a) ==
    IF a.q = NotStarted THEN BumpStats(s, p, a) ELSE s

Task(p, kind, pc, idx, cap) ==
    [page |-> p, kind |-> kind, pc |-> pc, idx |-> idx, cap |-> cap]

Spawn(t) == tasks (+) SetToBag({t})
Move(t, u) == (tasks (-) SetToBag({t})) (+) SetToBag({u})
Finish(t) == tasks (-) SetToBag({t})
Running == BagToSet(tasks)

(* ---- what the GamePlay render shows ---- *)
Ready(p) == ui[p].phase = "ready"
StartView(p) == Ready(p) /\ ~ui[p].gameEnded /\ ui[p].cqi = NotStarted
ResultsView(p) ==
    /\ Ready(p) /\ ~ui[p].gameEnded /\ ui[p].cqi # NotStarted
    /\ ui[p].showResults /\ ui[p].timeLeft = 0

(* a store request answers, ok or with a transport error *)
Attempt(ok) ==
    /\ ~ok => failures < MaxFailures
    /\ failures' = IF ok THEN failures ELSE failures + 1

(* component instances are numbered in the order they are mounted *)
FreshPage(p) ==
    /\ ui[p].phase = "unused"
    /\ \A r \in Pages : r < p => ui[r].phase # "unused"

(* ---- GameLobby ---- *)
(* Start Game in the lobby: writes status active, then navigates to the    *)
(* play route, which mounts a GamePlay instance and starts fetchGameData.  *)
LobbyStartGame(p, ok) ==
    /\ cmds < MaxCmds
    /\ FreshPage(p)
    /\ Attempt(ok)
    /\ cmds' = cmds + 1
    /\ IF ok
       THEN /\ store' = [store EXCEPT !.status = "active"]
            /\ ui' = [ui EXCEPT ![p].phase = "loading"]
            /\ tasks' = Spawn(Task(p, "fetch", "session", Null, NotStarted))
            /\ UNCHANGED lobbyToast
       ELSE /\ lobbyToast' = TRUE
            /\ UNCHANGED <<store, ui, tasks>>
    /\ UNCHANGED <<lobby, createQuiz, quizzes, shown, N, NP, answers, resumeLeft, refs, intervals, bcast>>

(* ---- GamePlay mount / unmount ---- *)
(* the play route opened directly (reload, second tab) *)
Mount(p) ==
    /\ cmds < MaxCmds
    /\ FreshPage(p)
    /\ cmds' = cmds + 1
    /\ ui' = [ui EXCEPT ![p].phase = "loading"]
    /\ tasks' = Spawn(Task(p, "fetch", "session", Null, NotStarted))
    /\ UNCHANGED <<lobby, createQuiz, quizzes, shown, N, NP, answers, resumeLeft, store, refs, intervals, bcast, lobbyToast, failures>>

(* seconds the countdown of the stored current question still has to run *)
(* on page p; 0 when p runs none                                         *)
CountdownLeft(p) ==
    LET live == {id \in DOMAIN intervals :
                    /\ intervals[id].page = p /\ intervals[id].kind = "timer"
                    /\ store.status = "active" /\ intervals[id].q = store.cqi}
    IN  IF live = {} THEN 0 ELSE intervals[CHOOSE id \in live : TRUE].time

(* the browser reloads the page: the old document goes away with its     *)
(* intervals, timeouts and pending handlers, and the component mounts    *)
(* anew with its initial state                                           *)
Reload(p) ==
    /\ cmds < MaxCmds
    /\ ui[p].phase \in Mounted
    /\ cmds' = cmds + 1
    /\ ui' = [ui EXCEPT ![p] = [InitUi EXCEPT !.phase = "loading"]]
    /\ refs' = [refs EXCEPT ![p] = [timerRef |-> 0, pollingRef |-> 0]]
    /\ intervals' = [i \in {j \in DOMAIN intervals : intervals[j].page # p}
                        |-> intervals[i]]
    /\ tasks' = [t \in {u \in DOMAIN tasks : u.page # p} |-> tasks[t]]
                   (+) SetToBag({Task(p, "fetch", "session", Null, NotStarted)})
    /\ resumeLeft' = [resumeLeft EXCEPT ![p] = CountdownLeft(p)]
    /\ UNCHANGED <<lobby, createQuiz, quizzes, shown, N, NP, answers, store, bcast, lobbyToast, failures>>

(* leaving the page: the mount effect's cleanup only unsubscribes the sync *)
(* channel; intervals and in-flight handlers are left alone                *)
Unmount(p) ==
    /\ ui[p].phase \in Mounted
    /\ ui' = [ui EXCEPT ![p] = [InitUi EXCEPT !.phase = "gone"]]
    /\ UNCHANGED <<lobby, createQuiz, quizzes, shown, N, NP, answers, resumeLeft, store, refs, intervals, tasks, bcast, lobbyToast, cmds, failures>>

(* fetchGameData: the session row is read first ... *)
FetchSession(t) ==
    /\ t \in Running /\ t.kind = "fetch" /\ t.pc = "session"
    /\ tasks' = Move(t, [t EXCEPT !.pc = "rest", !.idx = store.cqi])
    /\ UNCHANGED <<lobby, createQuiz, quizzes, shown, N, NP, answers, resumeLeft, store, ui, refs, intervals, bcast, lobbyToast, cmds, failures>>

(* ... and used after quiz, questions and players have been read *)
FetchDone(t) ==
    /\ t \in Running /\ t.kind = "fetch" /\ t.pc = "rest"
    /\ LET p == t.page
           s0 == SetUi(S, p, "score", [pl \in Players |-> 0])
           s1 == IF t.idx # Null THEN SetUi(s0, p, "cqi", t.idx) ELSE s0
           \* startTimer(question.time_limit): one argument, in the closure
           \* of the first render (questions = [])
           s2 == IF t.idx # Null /\ t.idx >= 0 /\ t.idx < N
                 THEN StartTimer(s1, p, 0, t.cap, TimeLimit(t.idx), Undefined)
                 ELSE s1
           s3 == IF s2.ui[p].phase = "loading"
                 THEN [s2 EXCEPT !.ui[p].phase = "ready"] ELSE s2
       IN  Apply(s3)
    /\ tasks' = Finish(t)
    /\ UNCHANGED <<lobby, createQuiz, quizzes, shown, N, NP, answers, resumeLeft, store, lobbyToast, cmds, failures>>

(* ---- a user who is not the host opens the play route ---- *)
VisitorMount ==
    /\ cmds < MaxCmds
    /\ ui[Visitor].phase = "unused"
    /\ cmds' = cmds + 1
    /\ ui' = [ui EXCEPT ![Visitor].phase = "loading"]
    /\ tasks' = Spawn(Task(Visitor, "visit", "session", Null, NotStarted))
    /\ UNCHANGED <<lobby, createQuiz, quizzes, shown, N, NP, answers, resumeLeft, store, refs, intervals, bcast, lobbyToast, failures>>

(* fetchGameData without its host check: the session is loaded for anyone *)
VisitorSessionRead_NoHostCheck(t) ==
    /\ t \in Running /\ t.kind = "visit" /\ t.pc = "session"
    /\ tasks' = Move(t, [t EXCEPT !.kind = "fetch", !.pc = "rest", !.idx = store.cqi])
    /\ UNCHANGED <<lobby, createQuiz, quizzes, shown, N, NP, answers, resumeLeft, store, ui, refs, intervals, bcast, lobbyToast, cmds, failures>>

(* fetchGameData of that instance: the session row is read,               *)
(* sessionData.host_id !== user?.id: "Access denied", navigate("/host"),  *)
(* return                                                                 *)
VisitorSessionRead(t) ==
    /\ t \in Running /\ t.kind = "visit" /\ t.pc = "session"
    /\ ui' = [ui EXCEPT ![t.page] = [InitUi EXCEPT !.phase = "denied"]]
    /\ tasks' = Finish(t)
    /\ UNCHANGED <<lobby, createQuiz, quizzes, shown, N, NP, answers, resumeLeft, store, refs, intervals, bcast, lobbyToast, cmds, failures>>

(* any read of fetchGameData fails: toast and navigate("/host") *)
FetchFail(t) ==
    /\ t \in Running /\ t.kind = "fetch"
    /\ Attempt(FALSE)
    /\ ui' = [ui EXCEPT ![t.page] = [InitUi EXCEPT !.phase = "gone"]]
    /\ tasks' = Finish(t)
    /\ UNCHANGED <<lobby, createQuiz, quizzes, shown, N, NP, answers, resumeLeft, store, refs, intervals, bcast, lobbyToast, cmds>>

(* ---- GamePlay.startGame ---- *)
(* startGame without its questions.length === 0 return *)
StartGameClick_NoEmptyCheck(p) ==
    /\ cmds < MaxCmds
    /\ StartView(p)
    /\ cmds' = cmds + 1
    /\ Apply(StopStatsPolling(ClearTimerRef(S, p), p))
    /\ tasks' = Spawn(Task(p, "start", "update", 0, ui[p].cqi))
    /\ UNCHANGED <<lobby, createQuiz, quizzes, shown, N, NP, answers, resumeLeft, store, lobbyToast, failures>>

StartGameClick(p) ==
    /\ cmds < MaxCmds
    /\ StartView(p)
    /\ cmds' = cmds + 1
    /\ IF N = 0
       THEN /\ ui' = [ui EXCEPT ![p].toast = "No questions"]
            /\ UNCHANGED <<refs, intervals, bcast, tasks>>
       ELSE /\ Apply(StopStatsPolling(ClearTimerRef(S, p), p))
            /\ tasks' = Spawn(Task(p, "start", "update", 0, ui[p].cqi))
    /\ UNCHANGED <<lobby, createQuiz, quizzes, shown, N, NP, answers, resumeLeft, store, lobbyToast, failures>>

(* the update of game_sessions answers; on error the handler throws *)
StartGameUpdate(t, ok) ==
    /\ t \in Running /\ t.kind = "start" /\ t.pc = "update"
    /\ Attempt(ok)
    /\ IF ok
       THEN /\ store' = [status |-> "active", cqi |-> 0]
            /\ LET initialStats == [k \in {UniqueKey(NoPrefix, o) : o \in Options(0)}
                                       |-> 0]
               IN  Apply(SetUi(SetUi(SetUi(SetUi(SetUi(S, t.page, "cqi", 0),
                                                 t.page, "showResults", FALSE),
                                           t.page, "isCalc", FALSE),
                                     t.page, "answerStats", initialStats),
                               t.page, "totalAnswers", 0))
            /\ tasks' = Move(t, [t EXCEPT !.pc = "send"])
       ELSE /\ Apply(SetUi(S, t.page, "toast", "Error starting game"))
            /\ tasks' = Finish(t)
            /\ UNCHANGED store
    /\ UNCHANGED <<lobby, createQuiz, quizzes, shown, N, NP, answers, resumeLeft, lobbyToast, cmds>>

(* await channel.send(game_started): the message is published *)
StartGameSend(t) ==
    /\ t \in Running /\ t.kind = "start" /\ t.pc = "send"
    /\ Apply(Publish(S, "game_started"))
    /\ tasks' = Move(t, [t EXCEPT !.pc = "ack"])
    /\ UNCHANGED <<lobby, createQuiz, quizzes, shown, N, NP, answers, resumeLeft, store, lobbyToast, cmds, failures>>

(* the send resolves: startTimer(0, questions[0].time_limit) *)
StartGameAck(t) ==
    /\ t \in Running /\ t.kind = "start" /\ t.pc = "ack"
    /\ Apply(StartTimer(S, t.page, N, t.cap, 0, TimeLimit(0)))
    /\ tasks' = Finish(t)
    /\ UNCHANGED <<lobby, createQuiz, quizzes, shown, N, NP, answers, resumeLeft, store, lobbyToast, cmds, failures>>

(* ---- GamePlay.nextQuestion ---- *)
(* nextQuestion testing nextIndex > questions.length *)
NextQuestionClick_OffByOne(p) ==
    /\ cmds < MaxCmds
    /\ ResultsView(p)
    /\ cmds' = cmds + 1
    /\ Apply(ClearTimerRef(StopStatsPolling(S, p), p))
    /\ LET nextIndex == ui[p].cqi + 1
       IN  tasks' = IF nextIndex > N
                    THEN Spawn(Task(p, "finish", "calc", nextIndex, ui[p].cqi))
                    ELSE Spawn(Task(p, "next", "update", nextIndex, ui[p].cqi))
    /\ UNCHANGED <<lobby, createQuiz, quizzes, shown, N, NP, answers, resumeLeft, store, lobbyToast, failures>>

NextQuestionClick(p) ==
    /\ cmds < MaxCmds
    /\ ResultsView(p)
    /\ cmds' = cmds + 1
    /\ Apply(ClearTimerRef(StopStatsPolling(S, p), p))
    /\ LET nextIndex == ui[p].cqi + 1
       IN  tasks' = IF nextIndex >= N
                    THEN Spawn(Task(p, "finish", "calc", nextIndex, ui[p].cqi))
                    ELSE Spawn(Task(p, "next", "update", nextIndex, ui[p].cqi))
    /\ UNCHANGED <<lobby, createQuiz, quizzes, shown, N, NP, answers, resumeLeft, store, lobbyToast, failures>>

(* past the last question: await calculatePlayerCompletionTimes() *)
FinishCalc(t) ==
    /\ t \in Running /\ t.kind = "finish" /\ t.pc = "calc"
    /\ tasks' = Move(t, [t EXCEPT !.pc = "update"])
    /\ UNCHANGED <<lobby, createQuiz, quizzes, shown, N, NP, answers, resumeLeft, store, ui, refs, intervals, bcast, lobbyToast, cmds, failures>>

(* the completion update; its error result is not looked at *)
FinishUpdate(t, ok) ==
    /\ t \in Running /\ t.kind = "finish" /\ t.pc = "update"
    /\ Attempt(ok)
    /\ store' = IF ok THEN [status |-> "completed", cqi |-> Null] ELSE store
    /\ tasks' = Move(t, [t EXCEPT !.pc = "send"])
    /\ UNCHANGED <<lobby, createQuiz, quizzes, shown, N, NP, answers, resumeLeft, ui, refs, intervals, bcast, lobbyToast, cmds>>

FinishSend(t) ==
    /\ t \in Running /\ t.kind = "finish" /\ t.pc = "send"
    /\ Apply(Publish(S, "game_ended"))
    /\ tasks' = Move(t, [t EXCEPT !.pc = "ack"])
    /\ UNCHANGED <<lobby, createQuiz, quizzes, shown, N, NP, answers, resumeLeft, store, lobbyToast, cmds, failures>>

FinishAck(t) ==
    /\ t \in Running /\ t.kind = "finish" /\ t.pc = "ack"
    /\ Apply(SetUi(S, t.page, "gameEnded", TRUE))
    /\ tasks' = Finish(t)
    /\ UNCHANGED <<lobby, createQuiz, quizzes, shown, N, NP, answers, resumeLeft, store, lobbyToast, cmds, failures>>

(* the index update; its error result is not looked at *)
NextUpdate(t, ok) ==
    /\ t \in Running /\ t.kind = "next" /\ t.pc = "update"
    /\ Attempt(ok)
    /\ store' = IF ok THEN [store EXCEPT !.cqi = t.idx] ELSE store
    /\ Apply(SetUi(SetUi(SetUi(SetUi(S, t.page, "showResults", FALSE),
                               t.page, "isCalc", FALSE),
                         t.page, "timeLeft", 0),
                   t.page, "cqi", t.idx))
    /\ tasks' = Move(t, [t EXCEPT !.pc = "send"])
    /\ UNCHANGED <<lobby, createQuiz, quizzes, shown, N, NP, answers, resumeLeft, lobbyToast, cmds>>

(* await channel.send(question_changed): published; then setTimeout(100) *)
NextSend(t) ==
    /\ t \in Running /\ t.kind = "next" /\ t.pc = "send"
    /\ Apply(PublishQ(S, "question_changed", t.idx))
    /\ tasks' = Move(t, [t EXCEPT !.pc = "timeout"])
    /\ UNCHANGED <<lobby, createQuiz, quizzes, shown, N, NP, answers, resumeLeft, store, lobbyToast, cmds, failures>>

(* the timeout fires: startTimer(nextIndex, questions[nextIndex].time_limit) *)
NextTimeout(t) ==
    /\ t \in Running /\ t.kind = "next" /\ t.pc = "timeout"
    /\ Apply(StartTimer(S, t.page, N, t.cap, t.idx, TimeLimit(t.idx)))
    /\ tasks' = Finish(t)
    /\ UNCHANGED <<lobby, createQuiz, quizzes, shown, N, NP, answers, resumeLeft, store, lobbyToast, cmds, failures>>

(* ---- End Quiz button ---- *)
EndQuizClick(p) ==
    /\ cmds < MaxCmds
    /\ ResultsView(p)
    /\ cmds' = cmds + 1
    /\ tasks' = Spawn(Task(p, "end", "calc", ui[p].cqi, ui[p].cqi))
    /\ UNCHANGED <<lobby, createQuiz, quizzes, shown, N, NP, answers, resumeLeft, store, ui, refs, intervals, bcast, lobbyToast, failures>>

(* calculatePlayerCompletionTimes() returned: setGameEnded(true) *)
EndQuizDone(t) ==
    /\ t \in Running /\ t.kind = "end" /\ t.pc = "calc"
    /\ Apply(SetUi(S, t.page, "gameEnded", TRUE))
    /\ tasks' = Finish(t)
    /\ UNCHANGED <<lobby, createQuiz, quizzes, shown, N, NP, answers, resumeLeft, store, lobbyToast, cmds, failures>>

(* ---- interval callbacks ---- *)
(* the countdown callback without its clearInterval at expiry *)
TimerTick_NoClear(id) ==
    /\ id \in DOMAIN intervals
    /\ intervals[id].kind = "timer"
    /\ intervals[id].time # Undefined
    /\ intervals[id].time > -1
    /\ LET iv == intervals[id]
           p == iv.page
           currentTime == iv.time - 1
           s1 == SetUi([S EXCEPT !.iv[id].time = currentTime],
                       p, "timeLeft", currentTime)
       IN  IF currentTime <= 0
           THEN /\ Apply(SetUi(PublishQ(StopStatsPolling(s1, p), "time_up", iv.q),
                               p, "isCalc", TRUE))
                /\ tasks' = Spawn(Task(p, "results", "wait", iv.q, iv.cap))
           ELSE /\ Apply(s1)
                /\ UNCHANGED tasks
    /\ UNCHANGED <<lobby, createQuiz, quizzes, shown, N, NP, answers, resumeLeft, store, lobbyToast, cmds, failures>>

(* one firing of the countdown interval armed by startTimer *)
TimerTick(id) ==
    /\ id \in DOMAIN intervals
    /\ intervals[id].kind = "timer"
    /\ intervals[id].time # Undefined     \* NaN - 1 = NaN, NaN <= 0 is false
    /\ intervals[id].time > -1
    /\ LET iv == intervals[id]
           p == iv.page
           currentTime == iv.time - 1
           s1 == SetUi([S EXCEPT !.iv[id].time = currentTime],
                       p, "timeLeft", currentTime)
       IN  IF currentTime <= 0
           THEN /\ Apply(SetUi(PublishQ(StopStatsPolling(ClearTimerRef(s1, p), p),
                                        "time_up", iv.q),
                               p, "isCalc", TRUE))
                /\ tasks' = Spawn(Task(p, "results", "wait", iv.q, iv.cap))
           ELSE /\ Apply(s1)
                /\ UNCHANGED tasks
    /\ UNCHANGED <<lobby, createQuiz, quizzes, shown, N, NP, answers, resumeLeft, store, lobbyToast, cmds, failures>>

(* the 500 ms timeout after expiry: refreshAnswerStats(q).then(show results) *)
ResultsDone(t) ==
    /\ t \in Running /\ t.kind = "results"
    /\ Apply(SetUi(SetUi(RefreshAnswerStats(S, t.page, t.idx, t.cap),
                         t.page, "showResults", TRUE),
                   t.page, "isCalc", FALSE))
    /\ tasks' = Finish(t)
    /\ UNCHANGED <<lobby, createQuiz, quizzes, shown, N, NP, answers, resumeLeft, store, lobbyToast, cmds, failures>>

(* one firing of the polling interval.  Its closure's currentQuestionIndex  *)
(* (cap) is the one of the render that armed it; when it differs from      *)
(* questionAtStart the loop stops itself.  The refresh branch changes no   *)
(* state modelled here.                                                    *)
PollTick(id) ==
    /\ id \in DOMAIN intervals
    /\ intervals[id].kind = "poll"
    /\ intervals[id].cap # intervals[id].q
    /\ LET p == intervals[id].page
       IN  Apply(SetUi([S EXCEPT !.iv = ClearInterval(@, S.refs[p].pollingRef),
                                 !.refs[p].pollingRef = 0],
                       p, "isPolling", FALSE))
    /\ UNCHANGED <<lobby, createQuiz, quizzes, shown, N, NP, answers, resumeLeft, store, tasks, lobbyToast, cmds, failures>>

(* ---- answers ---- *)
(* a player's submission is accepted and stored; each mounted host page    *)
(* gets, or misses, the realtime INSERT notification and the               *)
(* answer_submitted broadcast                                              *)
Deliver(s, got, a) ==
    LET Handle(s0, p) ==
          LET s1 == IF <<p, "insert">> \in got THEN OnAnswerInsert(s0, p, a) ELSE s0
          IN  IF <<p, "broadcast">> \in got THEN OnAnswerBroadcast(s1, p, a) ELSE s1
        f[k \in 0..MaxPages] ==
          IF k = 0 THEN Handle(s, Visitor) ELSE Handle(f[k - 1], k)
    IN  f[MaxPages]

(* submit_answer: the submission is validated, stored and notified *)
AcceptAnswer(pl, o, got) ==
    /\ got \subseteq {p \in AllPages : ui[p].phase # "unused"} \X {"insert", "broadcast"}
    /\ store.status = "active"
    /\ store.cqi # Null /\ store.cqi < N
    /\ o \in Options(store.cqi)
    /\ \A a \in answers : ~(a.player = pl /\ a.q = store.cqi)
    /\ LET a == [player |-> pl, q |-> store.cqi, opt |-> o]
       IN  /\ answers' = answers \cup {a}
           /\ Apply(Deliver(S, got, a))
    /\ UNCHANGED <<lobby, createQuiz, quizzes, shown, N, NP, resumeLeft, store, tasks, lobbyToast, failures>>

(* submit_answer without the check for an earlier answer of the player *)
SubmitAnswer_NoDuplicateCheck(pl, o, got) ==
    /\ cmds < MaxCmds
    /\ cmds' = cmds + 1
    /\ got \subseteq {p \in AllPages : ui[p].phase # "unused"} \X {"insert", "broadcast"}
    /\ store.status = "active"
    /\ store.cqi # Null /\ store.cqi < N
    /\ o \in Options(store.cqi)
    /\ LET a == [player |-> pl, q |-> store.cqi, opt |-> o]
       IN  /\ answers' = answers \cup {a}
           /\ Apply(Deliver(S, got, a))
    /\ UNCHANGED <<lobby, createQuiz, quizzes, shown, N, NP, resumeLeft, store, tasks, lobbyToast, failures>>

(* submit_answer called by a player's page *)
SubmitAnswer(pl, o, got) ==
    /\ cmds < MaxCmds
    /\ cmds' = cmds + 1
    /\ AcceptAnswer(pl, o, got)

(* ---- backup auto-refresh effect ---- *)
(* the effect's interval lives while the page shows question cqi >= 0 and  *)
(* no results; each firing calls refreshAnswerStats() of that render       *)
BackupRefreshTick(p) ==
    /\ ui[p].phase \in Mounted
    /\ ui[p].cqi >= 0 /\ ui[p].cqi < N
    /\ ~ui[p].showResults
    /\ BagCardinality([t \in {u \in DOMAIN tasks : u.page = p /\ u.kind = "refresh"}
                          |-> tasks[t]]) < MaxPolls
    /\ tasks' = Spawn(Task(p, "refresh", "select", ui[p].cqi, ui[p].cqi))
    /\ UNCHANGED <<lobby, createQuiz, quizzes, shown, N, NP, answers, resumeLeft, store, ui, refs, intervals, bcast,
                   lobbyToast, cmds, failures>>

(* refreshAnswerStats dropping the rows it has read *)
RefreshDone_Dropped(t, ok) ==
    /\ t \in Running /\ t.kind = "refresh"
    /\ Attempt(ok)
    /\ Apply(S)
    /\ tasks' = Finish(t)
    /\ UNCHANGED <<lobby, createQuiz, quizzes, shown, N, NP, answers, resumeLeft, store, lobbyToast, cmds>>

(* the select of refreshAnswerStats answers; on error it logs and returns *)
RefreshDone(t, ok) ==
    /\ t \in Running /\ t.kind = "refresh"
    /\ Attempt(ok)
    /\ Apply(IF ok THEN RefreshAnswerStats(S, t.page, t.idx, t.cap) ELSE S)
    /\ tasks' = Finish(t)
    /\ UNCHANGED <<lobby, createQuiz, quizzes, shown, N, NP, answers, resumeLeft, store, lobbyToast, cmds>>

Next ==
    \/ \E p \in Pages, ok \in BOOLEAN : LobbyStartGame(p, ok)
    \/ \E p \in Pages : Mount(p)
    \/ \E p \in Pages : Reload(p)
    \/ \E p \in Pages : Unmount(p)
    \/ \E t \in Running : FetchSession(t)
    \/ \E t \in Running : FetchDone(t)
    \/ \E t \in Running : FetchFail(t)
    \/ \E p \in Pages : StartGameClick(p)
    \/ \E t \in Running, ok \in BOOLEAN : StartGameUpdate(t, ok)
    \/ \E t \in Running : StartGameSend(t)
    \/ \E t \in Running : StartGameAck(t)
    \/ \E p \in Pages : NextQuestionClick(p)
    \/ \E t \in Running : FinishCalc(t)
    \/ \E t \in Running, ok \in BOOLEAN : FinishUpdate(t, ok)
    \/ \E t \in Running : FinishSend(t)
    \/ \E t \in Running : FinishAck(t)
    \/ \E t \in Running, ok \in BOOLEAN : NextUpdate(t, ok)
    \/ \E t \in Running : NextSend(t)
    \/ \E t \in Running : NextTimeout(t)
    \/ \E p \in Pages : EndQuizClick(p)
    \/ \E t \in Running : EndQuizDone(t)
    \/ \E id \in DOMAIN intervals : TimerTick(id)
    \/ \E t \in Running : ResultsDone(t)
    \/ \E id \in DOMAIN intervals : PollTick(id)

Spec == Init /\ [][Next]_vars

(* the session together with the players' answers and the host's view of *)
(* them: the tally, kept up to date by the backup refresh, and the scores *)
AnswerStep ==
    \/ \E pl \in Players, o \in 0..(MaxQuestions * MinOptions + MinOptions),
          got \in SUBSET (Pages \X {"insert", "broadcast"}) : SubmitAnswer(pl, o, got)
    \/ \E p \in Pages : BackupRefreshTick(p)
    \/ \E t \in Running, ok \in BOOLEAN : RefreshDone(t, ok)

TallyNext == Next \/ AnswerStep

TallySpec == Init /\ [][TallyNext]_vars

(* the session with, besides the host's pages, the play route opened by a *)
(* user who is not the host                                               *)
VisitorStep ==
    \/ VisitorMount
    \/ \E t \in Running : VisitorSessionRead(t)
    \/ \E pl \in Players, o \in 0..(MaxQuestions * MinOptions + MinOptions),
          got \in SUBSET (AllPages \X {"insert", "broadcast"}) : SubmitAnswer(pl, o, got)

VisitorNext == TallyNext \/ VisitorStep

VisitorSpec == Init /\ [][VisitorNext]_vars

(* the backup refresh interval of each page keeps firing every 500 ms     *)
(* while its effect is alive, and the select of a refresh of each page is *)
(* eventually answered                                                    *)
TallyFairSpec ==
    /\ TallySpec
    /\ \A p \in Pages : WF_vars(BackupRefreshTick(p))
    /\ \A p \in Pages : WF_vars(\E t \in Running : t.page = p /\ RefreshDone(t, TRUE))

(* the host's browser keeps running: armed intervals keep firing and every *)
(* request, send and timeout of a handler in flight eventually answers     *)
PageProgress ==
    \/ \E t \in Running :
          \/ FetchSession(t) \/ FetchDone(t)
          \/ StartGameUpdate(t, TRUE) \/ StartGameSend(t) \/ StartGameAck(t)
          \/ FinishCalc(t) \/ FinishUpdate(t, TRUE) \/ FinishSend(t) \/ FinishAck(t)
          \/ NextUpdate(t, TRUE) \/ NextSend(t) \/ NextTimeout(t)
          \/ EndQuizDone(t) \/ ResultsDone(t)
    \/ \E id \in DOMAIN intervals : TimerTick(id) \/ PollTick(id)

FairSpec == Spec /\ WF_vars(PageProgress)

(* some page runs the countdown of the stored current question *)
QuestionActive ==
    /\ store.status = "active"
    /\ \E id \in DOMAIN intervals :
          intervals[id].kind = "timer" /\ intervals[id].q = store.cqi

(* ---- Scenario A: one question with options X (correct) and Y; three  ---- *)
(* players answer X, X, Y while its countdown runs.  The host opens the    *)
(* game from the lobby, clicks Start Game once and stays on the page; no   *)
(* store request fails.  Notifications may get lost, refreshes may be slow. *)
ScenarioPlayers == 3
OptionX == OptionId(0, 1)
OptionY == OptionId(0, 2)
ScenarioChoice(pl) == IF pl = ScenarioPlayers THEN OptionY ELSE OptionX
ScenarioAnswers == {[player |-> pl, q |-> 0, opt |-> ScenarioChoice(pl)] : pl \in 1..ScenarioPlayers}

ScenarioInit ==
    /\ N = 1
    /\ NP = ScenarioPlayers
    /\ store = [status |-> "waiting", cqi |-> Null]
    /\ ui = [p \in AllPages |-> InitUi]
    /\ refs = [p \in AllPages |-> [timerRef |-> 0, pollingRef |-> 0]]
    /\ intervals = <<>>
    /\ tasks = EmptyBag
    /\ bcast = InitBcast
    /\ lobbyToast = FALSE
    /\ cmds = 0
    /\ failures = 0
    /\ resumeLeft = [p \in AllPages |-> 0]
    /\ answers = {}
    /\ shown = NothingShown
    /\ createQuiz = ClosedEditor
    /\ quizzes = <<>>
    /\ lobby = ClosedLobby

ScenarioStart(p) ==
    /\ store.cqi = Null /\ tasks = EmptyBag
    /\ StartGameClick(p)

ScenarioAnswer(pl, got) ==
    /\ QuestionActive
    /\ UNCHANGED cmds
    /\ AcceptAnswer(pl, ScenarioChoice(pl), got)

ScenarioNext ==
    \/ \E p \in Pages : LobbyStartGame(p, TRUE)
    \/ \E t \in Running : FetchSession(t)
    \/ \E t \in Running : FetchDone(t)
    \/ \E p \in Pages : ScenarioStart(p)
    \/ \E t \in Running : StartGameUpdate(t, TRUE)
    \/ \E t \in Running : StartGameSend(t)
    \/ \E t \in Running : StartGameAck(t)
    \/ \E id \in DOMAIN intervals : TimerTick(id)
    \/ \E t \in Running : ResultsDone(t)
    \/ \E id \in DOMAIN intervals : PollTick(id)
    \/ \E p \in Pages : BackupRefreshTick(p)
    \/ \E t \in Running : RefreshDone(t, TRUE)
    \/ \E pl \in Players, got \in SUBSET (Pages \X {"insert", "broadcast"}) :
          ScenarioAnswer(pl, got)

ScenarioSpec == ScenarioInit /\ [][ScenarioNext]_vars

(* ---- what the renders compute ---- *)
(* IEEE 754 double arithmetic on positive quotients of small integers    *)
(* (numerator and denominator below 2^15, quotient below 2^7).  A double *)
(* has 53 significant bits; a result is rounded to the nearest double,   *)
(* ties to the even mantissa.  A mantissa is held as five limbs of 13    *)
(* bits, least significant first (4 * 13 = 52 bits and the leading 1).   *)
Limb == 2^13

(* the e with 2^e <= a / b < 2^(e + 1) *)
BinaryExponent(a, b) ==
    CHOOSE e \in -15..15 :
       IF e >= 0 THEN b * 2^e <= a /\ a < b * 2^(e + 1)
                 ELSE b <= a * 2^(-e) /\ a * 2^(-e) < 2 * b

(* a / b as a double: [limbs, up, exp], value (limbs + up) * 2^exp, where *)
(* limbs are the first 53 bits of the quotient and up is the rounding of  *)
(* the bits after them                                                    *)
DoubleQuotient(a, b) ==
    LET e == BinaryExponent(a, b)
        a0 == IF e >= 0 THEN a ELSE a * 2^(-e)
        b0 == IF e >= 0 THEN b * 2^e ELSE b
        \* long division of a0 / b0 (in [1, 2)), 13 bits at a time
        r0 == a0 - b0
        d1 == (r0 * Limb) \div b0
        r1 == (r0 * Limb) % b0
        d2 == (r1 * Limb) \div b0
        r2 == (r1 * Limb) % b0
        d3 == (r2 * Limb) \div b0
        r3 == (r2 * Limb) % b0
        d4 == (r3 * Limb) \div b0
        r4 == (r3 * Limb) % b0
        up == IF 2 * r4 > b0 \/ (2 * r4 = b0 /\ d4 % 2 = 1) THEN 1 ELSE 0
    IN  [limbs |-> <<d4, d3, d2, d1, 1>>, up |-> up, exp |-> e - 52]

(* Math.round(q * 100) for the double q: the product is rounded to a     *)
(* double x, and Math.round(x) is floor(x + 0.5)                         *)
RoundTimes100(q) ==
    LET \* (limbs + up) * 100, exactly: below 2^60
        v1 == q.limbs[1] * 100 + q.up * 100
        v2 == q.limbs[2] * 100 + (v1 \div Limb)
        v3 == q.limbs[3] * 100 + (v2 \div Limb)
        v4 == q.limbs[4] * 100 + (v3 \div Limb)
        v5 == q.limbs[5] * 100 + (v4 \div Limb)
        p1 == v1 % Limb
        \* the product has 59 or 60 bits: 6 or 7 of them are rounded away
        drop == IF v5 >= 2^7 THEN 7 ELSE 6
        low == p1 % 2^drop
        up == IF \/ low > 2^(drop - 1)
                 \/ (low = 2^(drop - 1) /\ (p1 \div 2^drop) % 2 = 1)
              THEN 1 ELSE 0
        \* the rounded product x = n * 2^(q.exp)
        w1 == p1 - low + up * 2^drop
        w2 == (v2 % Limb) + (w1 \div Limb)
        w3 == (v3 % Limb) + (w2 \div Limb)
        w4 == (v4 % Limb) + (w3 \div Limb)
        w5 == v5 + (w4 \div Limb)
        n == <<w1 % Limb, w2 % Limb, w3 % Limb, w4 % Limb, w5>>
        limb(i) == IF i \in 1..5 THEN n[i] ELSE 0
        \* bit i of n has weight 2^(i + q.exp); s is the position of weight 1
        s == -q.exp
        int == (limb((s \div 13) + 1) \div 2^(s % 13))
                 + limb((s \div 13) + 2) * 2^(13 - (s % 13))
        half == (limb(((s - 1) \div 13) + 1) \div 2^((s - 1) % 13)) % 2
    IN  int + half

(* totalAnswers > 0 ? Math.round((answerCount / totalAnswers) * 100) : 0 *)
Percentage(answerCount, totalAnswers) ==
    IF totalAnswers > 0 /\ answerCount > 0
    THEN RoundTimes100(DoubleQuotient(answerCount, totalAnswers))
    ELSE 0

(* one option of the results view (or of the summary's answer distribution) *)
(* is rendered for a count and a total                                      *)
RenderOption(answerCount, totalAnswers) ==
    /\ shown' = [view |-> "option", answerCount |-> answerCount,
                 totalAnswers |-> totalAnswers,
                 percentage |-> Percentage(answerCount, totalAnswers)]
    /\ UNCHANGED <<lobby, createQuiz, quizzes, N, store, ui, refs, intervals, tasks, bcast, lobbyToast, cmds,
                   failures, resumeLeft, NP, answers>>

(* ---- leaderboards ---- *)
(* A player of a leaderboard input: id is the position in the players    *)
(* array, time the sum of time_taken over the player's stored answers.   *)
PlayerLists ==
    UNION {[1..n -> [score : {k * PointsPerCorrect : k \in 0..MaxRight},
                     time : 0..MaxTime]] : n \in 0..MaxBoard}

(* the players state while the game runs: fetchGameData sets              *)
(* totalCompletionTime to 0 and nothing changes it before the game ends   *)
PlayersInGame(list) ==
    [i \in DOMAIN list |-> [id |-> i, score |-> list[i].score, time |-> list[i].time,
                            totalCompletionTime |-> 0]]

(* the players state after calculatePlayerCompletionTimes *)
PlayersWithTimes(list) ==
    [i \in DOMAIN list |-> [id |-> i, score |-> list[i].score, time |-> list[i].time,
                            totalCompletionTime |-> list[i].time]]

(* the playerStats objects of fetchSummaryData: name, score, accuracy,    *)
(* averageTime, ... but no totalCompletionTime                            *)
PlayerStats(list) ==
    [i \in DOMAIN list |-> [id |-> i, score |-> list[i].score, time |-> list[i].time,
                            totalCompletionTime |-> Undefined]]

(* (x.totalCompletionTime || 0) *)
OrZero(v) == IF v = Undefined THEN 0 ELSE v

(* the comparator of the final results, the in-game list and the summary *)
ByScoreThenTime(a, b) ==
    IF b.score # a.score
    THEN b.score - a.score
    ELSE OrZero(a.totalCompletionTime) - OrZero(b.totalCompletionTime)

(* the comparator of exportToCSV *)
ByScore(a, b) == b.score - a.score

(* Array.prototype.sort: stable, a stays before b unless Cmp(a, b) > 0 *)
SortWith(list, Cmp(_, _)) ==
    LET Insert(sorted, x) ==
            LET k == Cardinality({i \in 1..Len(sorted) : Cmp(sorted[i], x) <= 0})
            IN  SubSeq(sorted, 1, k) \o <<x>> \o SubSeq(sorted, k + 1, Len(sorted))
        upTo[n \in 0..Len(list)] ==
            IF n = 0 THEN <<>> ELSE Insert(upTo[n - 1], list[n])
    IN  upTo[Len(list)]

(* .slice(0, n) *)
Slice(list, n) == SubSeq(list, 1, IF Len(list) < n THEN Len(list) ELSE n)

ShowBoard(board, players, rows) ==
    /\ shown' = [view |-> "leaderboard", board |-> board, players |-> players,
                 rows |-> rows]
    /\ UNCHANGED <<lobby, createQuiz, quizzes, N, store, ui, refs, intervals, tasks, bcast, lobbyToast, cmds,
                   failures, resumeLeft, NP, answers>>

(* if (gameEnded): sortedPlayers of the final results *)
RenderFinalResults(list) ==
    ShowBoard("final", PlayersWithTimes(list),
              SortWith(PlayersWithTimes(list), ByScoreThenTime))

(* the Leaderboard card of the results view of a question *)
RenderTopFive(list) ==
    ShowBoard("top", PlayersInGame(list),
              Slice(SortWith(PlayersInGame(list), ByScoreThenTime), TopCount))

(* exportToCSV of the final results: the ranking rows of the file *)
ExportToCSV(list) ==
    ShowBoard("csv", PlayersWithTimes(list), SortWith(PlayersWithTimes(list), ByScore))

(* fetchSummaryData: the player list of the summary *)
FetchSummaryData(list) ==
    ShowBoard("summary", PlayerStats(list), SortWith(PlayerStats(list), ByScoreThenTime))

(* one render of one view, for any values it can be given *)
RenderNext ==
    /\ shown = NothingShown
    /\ \/ \E answerCount \in 0..MaxCount, totalAnswers \in 0..MaxCount :
             RenderOption(answerCount, totalAnswers)
       \/ \E list \in PlayerLists : RenderFinalResults(list)
       \/ \E list \in PlayerLists : RenderTopFive(list)
       \/ \E list \in PlayerLists : ExportToCSV(list)
       \/ \E list \in PlayerLists : FetchSummaryData(list)

RenderInit == Init /\ N = 0 /\ NP = 0

RenderSpec == RenderInit /\ [][RenderNext]_vars

(* ------------------------------------------------------------------ *)
(* The post-game summary (GameSummary.fetchSummaryData)                *)
(* ------------------------------------------------------------------ *)
(* a JS number: finite, NaN (0 / 0) or Infinity (x / 0, x > 0) *)
JsFinite(n) == [kind |-> "finite", value |-> n]
JsNaN == [kind |-> "NaN", value |-> 0]
JsInfinity == [kind |-> "Infinity", value |-> 0]

(* Math.round(a / b) for integers a >= 0 and b >= 0; Math.round keeps NaN *)
(* and Infinity                                                           *)
RoundedQuotient(a, b) ==
    IF b = 0 THEN (IF a = 0 THEN JsNaN ELSE JsInfinity)
    ELSE JsFinite((2 * a + b) \div (2 * b))

(* Math.round((a / b) * 100) for integers a >= 0 and b >= 0 *)
RoundedRatioTimes100(a, b) ==
    IF b = 0 THEN (IF a = 0 THEN JsNaN ELSE JsInfinity)
    ELSE IF a = 0 THEN JsFinite(0)
    ELSE JsFinite(RoundTimes100(DoubleQuotient(a, b)))

(* the names two players can have, and the players array handed to the    *)
(* summary: game_players rows, their id being the position in the array   *)
PlayerNames == {"ann", "bob"}

SummaryPlayerLists ==
    UNION {[1..n -> [name : PlayerNames,
                     score : {k * PointsPerCorrect : k \in 0..MaxRight}]]
             : n \in 0..MaxSummaryPlayers}

(* the game_answers rows of the session: at most one per player and       *)
(* question, each joined with the player_name of its game_players row     *)
NoAnswer == [given |-> FALSE, is_correct |-> FALSE, time_taken |-> 0]

AnswerSheets(players, totalQuestions) ==
    [(DOMAIN players) \X (0..(totalQuestions - 1))
        -> {NoAnswer} \cup [given : {TRUE}, is_correct : BOOLEAN,
                            time_taken : 0..MaxTime]]

AllAnswers(players, sheet) ==
    {[player_id |-> c[1], player_name |-> players[c[1]].name,
      question_index |-> c[2], is_correct |-> sheet[c].is_correct,
      time_taken |-> sheet[c].time_taken] : c \in {d \in DOMAIN sheet : sheet[d].given}}

(* rows.reduce((sum, a) => sum + a.time_taken, 0) *)
RECURSIVE SumTimeTaken(_)
SumTimeTaken(rows) ==
    IF rows = {} THEN 0
    ELSE LET a == CHOOSE r \in rows : TRUE
         IN  a.time_taken + SumTimeTaken(rows \ {a})

(* players.reduce((sum, p) => sum + p.score, 0) *)
RECURSIVE SumScores(_, _)
SumScores(players, n) ==
    IF n = 0 THEN 0 ELSE players[n].score + SumScores(players, n - 1)

Correct(rows) == {a \in rows : a.is_correct}

(* overview and insights of setSummaryData *)
SummaryOverview(players, totalQuestions, allAnswers) ==
    LET totalPlayers == Len(players)
        totalAnswers == Cardinality(allAnswers)
        correctAnswers == Cardinality(Correct(allAnswers))
    IN  [totalQuestions |-> totalQuestions,
         totalPlayers |-> totalPlayers,
         totalAnswers |-> totalAnswers,
         overallAccuracy |->
            IF totalAnswers > 0 THEN RoundedRatioTimes100(correctAnswers, totalAnswers)
            ELSE JsFinite(0),
         averageScore |-> RoundedQuotient(SumScores(players, totalPlayers), totalPlayers),
         participationRate |->
            RoundedRatioTimes100(totalAnswers, totalQuestions * totalPlayers)]

(* one row of the statistics, as the summary shows it: Math.round(accuracy) *)
(* and Math.round(averageTime)                                             *)
StatsRow(rows) ==
    LET correctCount == Cardinality(Correct(rows))
        totalCount == Cardinality(rows)
    IN  [totalAnswers |-> totalCount,
         correctAnswers |-> correctCount,
         accuracy |-> IF totalCount > 0
                      THEN RoundedRatioTimes100(correctCount, totalCount)
                      ELSE JsFinite(0),
         averageTime |-> RoundedQuotient(SumTimeTaken(rows),
                                         IF totalCount # 0 THEN totalCount ELSE 1)]

(* questionStats: allAnswers.filter((a) => a.question_index === index) *)
QuestionStats(totalQuestions, allAnswers) ==
    [i \in 1..totalQuestions |->
        StatsRow({a \in allAnswers : a.question_index = i - 1})]

(* playerStats before its sort:                                           *)
(* allAnswers.filter((a) => a.game_players.player_name === player.name)   *)
SummaryPlayerStats(players, allAnswers) ==
    [i \in DOMAIN players |->
        StatsRow({a \in allAnswers : a.player_name = players[i].name})]

(* exportToCSV section 5: answersByPlayer[playerName][question_index] is   *)
(* the last row of that name and question in the order of the select      *)
(* (question_index ascending, rows of one question in any order the       *)
(* store returns them: pick is the row that came last)                    *)
CsvCell(players, allAnswers, i, q, pick) ==
    LET rows == {a \in allAnswers : a.player_name = players[i].name
                                     /\ a.question_index = q}
    IN  IF rows = {} THEN [answered |-> FALSE, player_id |-> 0, is_correct |-> FALSE]
        ELSE LET a == IF pick \in rows THEN pick ELSE CHOOSE r \in rows : TRUE
             IN  [answered |-> TRUE, player_id |-> a.player_id,
                  is_correct |-> a.is_correct]

(* fetchSummaryData: the select has answered and setSummaryData runs *)
FetchSummaryStats(players, totalQuestions, sheet) ==
    LET allAnswers == AllAnswers(players, sheet)
    IN  /\ shown' = [view |-> "summary", players |-> players,
                     allAnswers |-> allAnswers,
                     overview |-> SummaryOverview(players, totalQuestions, allAnswers),
                     questionStats |-> QuestionStats(totalQuestions, allAnswers),
                     playerStats |-> SummaryPlayerStats(players, allAnswers)]
        /\ UNCHANGED <<lobby, createQuiz, quizzes, N, store, ui, refs, intervals, tasks, bcast, lobbyToast, cmds,
                       failures, resumeLeft, NP, answers>>

(* exportToCSV: the select has answered and the detailed rows are written *)
ExportAnswerRows(players, totalQuestions, sheet, pick) ==
    LET allAnswers == AllAnswers(players, sheet)
    IN  /\ shown' = [view |-> "csv", players |-> players,
                     allAnswers |-> allAnswers,
                     cells |-> [c \in (DOMAIN players) \X (0..(totalQuestions - 1)) |->
                                  CsvCell(players, allAnswers, c[1], c[2], pick)]]
        /\ UNCHANGED <<lobby, createQuiz, quizzes, N, store, ui, refs, intervals, tasks, bcast, lobbyToast, cmds,
                       failures, resumeLeft, NP, answers>>

(* the summary page or the export, for any players, questions and answers *)
SummaryNext ==
    /\ shown = NothingShown
    /\ \E players \in SummaryPlayerLists, totalQuestions \in 0..MaxQuestions :
         \E sheet \in AnswerSheets(players, totalQuestions) :
            \/ FetchSummaryStats(players, totalQuestions, sheet)
            \/ \E pick \in AllAnswers(players, sheet) \cup {NoAnswer} :
                  ExportAnswerRows(players, totalQuestions, sheet, pick)

SummarySpec == RenderInit /\ [][SummaryNext]_vars

(* ------------------------------------------------------------------ *)
(* The quiz editor (CreateQuiz) and the rows saveQuiz writes           *)
(* ------------------------------------------------------------------ *)
(* a question of the editor is the sequence of its options' isCorrect; *)
(* the texts, the title and the time limits are summarised by filled:  *)
(* all texts non-blank and every time limit within 5..120              *)
NewQuestion == <<FALSE, FALSE>>

Editing == createQuiz.phase = "editing" /\ ~createQuiz.loading

SetQuestions(qs) == createQuiz' = [createQuiz EXCEPT !.questions = qs]

RemoveAt(seq, i) == [j \in 1..(Len(seq) - 1) |-> IF j < i THEN seq[j] ELSE seq[j + 1]]

CorrectCount(options) == Cardinality({o \in DOMAIN options : options[o]})

(* the route /create (edit = FALSE) or /edit/:quizId is opened (by a user  *)
(* who opens it when no save of an earlier visit is still running)        *)
OpenCreateQuiz(edit, id) ==
    /\ createQuiz.phase = "closed"
    /\ createQuiz.save.pc = "idle"
    /\ IF edit THEN id \in DOMAIN quizzes ELSE id = 0
    /\ createQuiz' = [ClosedEditor EXCEPT !.phase = IF edit THEN "loading" ELSE "editing",
                                          !.isEditing = edit, !.quizId = id,
                                          !.questions = <<NewQuestion>>,
                                          !.save = createQuiz.save]
    /\ UNCHANGED <<lobby, quizzes, shown, N, store, ui, refs, intervals, tasks, bcast, lobbyToast,
                   cmds, failures, resumeLeft, NP, answers>>

(* loadExistingQuiz: both selects answer, or one fails (toast, navigate) *)
LoadExistingQuiz(ok) ==
    /\ createQuiz.phase = "loading"
    /\ Attempt(ok)
    /\ createQuiz' =
         IF ok
         THEN [createQuiz EXCEPT
                 !.phase = "editing", !.filled = TRUE,
                 !.questions = IF Len(quizzes[createQuiz.quizId]) > 0
                               THEN quizzes[createQuiz.quizId]
                               ELSE <<NewQuestion>>]
         ELSE [ClosedEditor EXCEPT !.save = createQuiz.save]
    /\ UNCHANGED <<lobby, quizzes, shown, N, store, ui, refs, intervals, tasks, bcast, lobbyToast,
                   cmds, resumeLeft, NP, answers>>

(* updateTitle, updateDescription, updateQuestion and updateOption(.., "text", ..) *)
UpdateTexts(filled) ==
    /\ Editing
    /\ createQuiz' = [createQuiz EXCEPT !.filled = filled]
    /\ UNCHANGED <<lobby, quizzes, shown, N, store, ui, refs, intervals, tasks, bcast, lobbyToast,
                   cmds, failures, resumeLeft, NP, answers>>

AddQuestion ==
    /\ Editing
    /\ Len(createQuiz.questions) < MaxEditorQuestions
    /\ createQuiz' = [createQuiz EXCEPT !.questions = Append(@, NewQuestion),
                                        !.filled = FALSE]
    /\ UNCHANGED <<lobby, quizzes, shown, N, store, ui, refs, intervals, tasks, bcast, lobbyToast,
                   cmds, failures, resumeLeft, NP, answers>>

RemoveQuestion(i) ==
    /\ Editing
    /\ i \in DOMAIN createQuiz.questions
    /\ Len(createQuiz.questions) > 1
    /\ SetQuestions(RemoveAt(createQuiz.questions, i))
    /\ UNCHANGED <<lobby, quizzes, shown, N, store, ui, refs, intervals, tasks, bcast, lobbyToast,
                   cmds, failures, resumeLeft, NP, answers>>

AddOption(i) ==
    /\ Editing
    /\ i \in DOMAIN createQuiz.questions
    /\ Len(createQuiz.questions[i]) < MaxOptions
    /\ Len(createQuiz.questions[i]) < MaxEditorOptions
    /\ createQuiz' = [createQuiz EXCEPT !.questions[i] = Append(@, FALSE),
                                        !.filled = FALSE]
    /\ UNCHANGED <<lobby, quizzes, shown, N, store, ui, refs, intervals, tasks, bcast, lobbyToast,
                   cmds, failures, resumeLeft, NP, answers>>

RemoveOption(i, o) ==
    /\ Editing
    /\ i \in DOMAIN createQuiz.questions
    /\ o \in DOMAIN createQuiz.questions[i]
    /\ Len(createQuiz.questions[i]) > MinOptions
    /\ SetQuestions([createQuiz.questions EXCEPT ![i] = RemoveAt(@, o)])
    /\ UNCHANGED <<lobby, quizzes, shown, N, store, ui, refs, intervals, tasks, bcast, lobbyToast,
                   cmds, failures, resumeLeft, NP, answers>>

(* setCorrectOption: isCorrect: opt.id === optionId for every option *)
SetCorrectOption(i, o) ==
    /\ Editing
    /\ i \in DOMAIN createQuiz.questions
    /\ o \in DOMAIN createQuiz.questions[i]
    /\ SetQuestions([createQuiz.questions EXCEPT
                       ![i] = [j \in DOMAIN createQuiz.questions[i] |-> j = o]])
    /\ UNCHANGED <<lobby, quizzes, shown, N, store, ui, refs, intervals, tasks, bcast, lobbyToast,
                   cmds, failures, resumeLeft, NP, answers>>

ValidateQuiz ==
    /\ createQuiz.filled
    /\ Len(createQuiz.questions) # 0
    /\ \A i \in DOMAIN createQuiz.questions :
          /\ Len(createQuiz.questions[i]) >= MinOptions
          /\ CorrectCount(createQuiz.questions[i]) # 0

(* saveQuiz up to its first request; a failed validation returns *)
SaveQuizClick ==
    /\ Editing
    /\ createQuiz.save.pc = "idle"
    /\ ValidateQuiz
    /\ createQuiz.isEditing \/ Len(quizzes) < MaxQuizzes
    /\ createQuiz' = [createQuiz EXCEPT
                        !.loading = TRUE,
                        !.save = [pc |-> IF createQuiz.isEditing THEN "update" ELSE "create",
                                  isEditing |-> createQuiz.isEditing,
                                  quiz |-> createQuiz.quizId,
                                  questions |-> createQuiz.questions, k |-> 1,
                                  before |-> IF createQuiz.isEditing
                                             THEN quizzes[createQuiz.quizId] ELSE <<>>]]
    /\ UNCHANGED <<lobby, quizzes, shown, N, store, ui, refs, intervals, tasks, bcast, lobbyToast,
                   cmds, failures, resumeLeft, NP, answers>>

(* catch: toast "Error saving quiz"; finally: setLoading(false) *)
SaveThrown == [createQuiz EXCEPT !.loading = FALSE, !.save = NoSave]

(* the update of the quizzes row answers *)
SaveUpdate(ok) ==
    /\ createQuiz.save.pc = "update"
    /\ Attempt(ok)
    /\ createQuiz' = IF ok THEN [createQuiz EXCEPT !.save.pc = "delete"] ELSE SaveThrown
    /\ UNCHANGED <<lobby, quizzes, shown, N, store, ui, refs, intervals, tasks, bcast, lobbyToast,
                   cmds, resumeLeft, NP, answers>>

(* the delete of the quiz's question rows answers; its error is not read *)
SaveDelete(ok) ==
    /\ createQuiz.save.pc = "delete"
    /\ Attempt(ok)
    /\ quizzes' = IF ok THEN [quizzes EXCEPT ![createQuiz.save.quiz] = <<>>] ELSE quizzes
    /\ createQuiz' = [createQuiz EXCEPT !.save.pc = "question"]
    /\ UNCHANGED <<lobby, shown, N, store, ui, refs, intervals, tasks, bcast, lobbyToast,
                   cmds, resumeLeft, NP, answers>>

(* the insert of a new quizzes row answers *)
SaveCreate(ok) ==
    /\ createQuiz.save.pc = "create"
    /\ Attempt(ok)
    /\ quizzes' = IF ok THEN Append(quizzes, <<>>) ELSE quizzes
    /\ createQuiz' = IF ok THEN [createQuiz EXCEPT !.save.pc = "question",
                                                   !.save.quiz = Len(quizzes) + 1]
                     ELSE SaveThrown
    /\ UNCHANGED <<lobby, shown, N, store, ui, refs, intervals, tasks, bcast, lobbyToast,
                   cmds, resumeLeft, NP, answers>>

(* the insert of the next question row answers *)
SaveQuestion(ok) ==
    /\ createQuiz.save.pc = "question"
    /\ Attempt(ok)
    /\ quizzes' = IF ok THEN [quizzes EXCEPT ![createQuiz.save.quiz] = Append(@, <<>>)]
                  ELSE quizzes
    /\ createQuiz' = IF ok THEN [createQuiz EXCEPT !.save.pc = "options"] ELSE SaveThrown
    /\ UNCHANGED <<lobby, shown, N, store, ui, refs, intervals, tasks, bcast, lobbyToast,
                   cmds, resumeLeft, NP, answers>>

(* the insert of that question's option rows answers; after the last      *)
(* question: toast, setTimeout(navigate("/host"), 1000), setLoading(false) *)
SaveOptions(ok) ==
    /\ createQuiz.save.pc = "options"
    /\ Attempt(ok)
    /\ LET sv == createQuiz.save
           row == Len(quizzes[sv.quiz])
       IN  /\ quizzes' = IF ok THEN [quizzes EXCEPT ![sv.quiz][row] = sv.questions[sv.k]]
                         ELSE quizzes
           /\ createQuiz' =
                IF ~ok THEN SaveThrown
                ELSE IF sv.k < Len(sv.questions)
                THEN [createQuiz EXCEPT !.save.pc = "question", !.save.k = sv.k + 1]
                ELSE [createQuiz EXCEPT !.loading = FALSE, !.save = NoSave,
                                        !.leaving = (createQuiz.phase # "closed")]
    /\ UNCHANGED <<lobby, shown, N, store, ui, refs, intervals, tasks, bcast, lobbyToast,
                   cmds, resumeLeft, NP, answers>>

(* the timeout of a finished save fires: navigate("/host") *)
NavigateHost ==
    /\ createQuiz.leaving
    /\ createQuiz' = [ClosedEditor EXCEPT !.save = createQuiz.save]
    /\ UNCHANGED <<lobby, quizzes, shown, N, store, ui, refs, intervals, tasks, bcast, lobbyToast,
                   cmds, failures, resumeLeft, NP, answers>>

EditorNext ==
    \/ \E edit \in BOOLEAN, id \in 0..MaxQuizzes : OpenCreateQuiz(edit, id)
    \/ \E ok \in BOOLEAN : LoadExistingQuiz(ok)
    \/ \E filled \in BOOLEAN : UpdateTexts(filled)
    \/ AddQuestion
    \/ \E i \in 1..MaxEditorQuestions : RemoveQuestion(i)
    \/ \E i \in 1..MaxEditorQuestions : AddOption(i)
    \/ \E i \in 1..MaxEditorQuestions, o \in 1..MaxEditorOptions : RemoveOption(i, o)
    \/ \E i \in 1..MaxEditorQuestions, o \in 1..MaxEditorOptions : SetCorrectOption(i, o)
    \/ SaveQuizClick
    \/ \E ok \in BOOLEAN : SaveUpdate(ok)
    \/ \E ok \in BOOLEAN : SaveDelete(ok)
    \/ \E ok \in BOOLEAN : SaveCreate(ok)
    \/ \E ok \in BOOLEAN : SaveQuestion(ok)
    \/ \E ok \in BOOLEAN : SaveOptions(ok)
    \/ NavigateHost

EditorSpec == RenderInit /\ [][EditorNext]_vars

(* ------------------------------------------------------------------ *)
(* The lobby's player list (GameLobby)                                 *)
(* ------------------------------------------------------------------ *)
Joiners == 1..MaxJoiners

(* the rows of a select as an array (any fixed order) *)
RECURSIVE RowsToSeq(_)
RowsToSeq(rows) ==
    IF rows = {} THEN <<>>
    ELSE LET id == CHOOSE r \in rows : \A o \in rows : r <= o
         IN  <<id>> \o RowsToSeq(rows \ {id})

LobbyUnchanged ==
    UNCHANGED <<createQuiz, quizzes, shown, N, store, ui, refs, intervals, tasks, bcast,
                lobbyToast, cmds, failures, resumeLeft, NP, answers>>

(* the mount effect: fetchGameSession() and subscribeToPlayers() are called *)
LobbyMount ==
    /\ lobby.phase = "closed"
    /\ lobby' = [lobby EXCEPT !.phase = "loading", !.pc = "session"]
    /\ LobbyUnchanged

(* the realtime channel game_players_changes has joined *)
LobbySubscribed ==
    /\ lobby.phase # "closed" /\ ~lobby.subscribed
    /\ lobby' = [lobby EXCEPT !.subscribed = TRUE]
    /\ LobbyUnchanged

(* a participant joins: a game_players row is inserted, and the channel,   *)
(* if joined, is sent the INSERT                                           *)
PlayerJoins(id) ==
    /\ id \notin lobby.rows
    /\ lobby' = [lobby EXCEPT !.rows = @ \cup {id},
                              !.inflight = IF lobby.subscribed THEN @ \cup {id} ELSE @]
    /\ LobbyUnchanged

(* fetchGameSession: the session row, then the quiz row have been read *)
LobbyFetchRead ==
    /\ lobby.pc \in {"session", "quiz"}
    /\ lobby' = [lobby EXCEPT !.pc = IF lobby.pc = "session" THEN "quiz" ELSE "players"]
    /\ LobbyUnchanged

(* the select of the session's game_players rows is executed *)
LobbySelectPlayers ==
    /\ lobby.pc = "players"
    /\ lobby' = [lobby EXCEPT !.pc = "set", !.read = lobby.rows]
    /\ LobbyUnchanged

(* its answer arrives: setPlayers(formattedPlayers), setLoading(false) *)
LobbySetPlayers ==
    /\ lobby.pc = "set"
    /\ lobby' = [lobby EXCEPT !.pc = "done", !.phase = "ready",
                              !.players = RowsToSeq(lobby.read)]
    /\ LobbyUnchanged

(* the INSERT handler: setPlayers((current) => [...current, newPlayer]) *)
LobbyPlayerInsert(id) ==
    /\ id \in lobby.inflight
    /\ lobby' = [lobby EXCEPT !.inflight = @ \ {id}, !.players = Append(@, id)]
    /\ LobbyUnchanged

LobbyNext ==
    \/ LobbyMount
    \/ LobbySubscribed
    \/ \E id \in Joiners : PlayerJoins(id)
    \/ LobbyFetchRead
    \/ LobbySelectPlayers
    \/ LobbySetPlayers
    \/ \E id \in Joiners : LobbyPlayerInsert(id)

LobbySpec == RenderInit /\ [][LobbyNext]_vars

TypeOK ==
    /\ N \in 0..MaxQuestions
    /\ store.status \in {"waiting", "active", "completed"}
    /\ store.cqi \in {Null} \cup Nat
    /\ cmds \in 0..MaxCmds
    /\ failures \in 0..MaxFailures

(* ------------------------------------------------------------------ *)
(* Session state as the specification names it                         *)
(* ------------------------------------------------------------------ *)
(* the session has left the lobby: a question index is stored, or it is completed *)
NotInLobby == store.cqi # Null \/ store.status = "completed"

(* ------------------------------------------------------------------ *)
(* C1: the stored current_question_index, once non-null, never          *)
(* decreases and does not go back to null until the session is          *)
(* completed, whatever the host pages do.                               *)
(* ------------------------------------------------------------------ *)
C1_IndexNeverDecreases ==
    [][(store.cqi # Null /\ store.status # "completed")
         => IF store'.cqi = Null
            THEN store'.status = "completed"
            ELSE store'.cqi >= store.cqi]_vars

(* ------------------------------------------------------------------ *)
(* C2: whenever the stored status is active, the stored                 *)
(* current_question_index is a question index in [0, N).                *)
(* ------------------------------------------------------------------ *)
C2_ActiveHasIndex ==
    store.status = "active" => (store.cqi # Null /\ store.cqi >= 0 /\ store.cqi < N)

(* ------------------------------------------------------------------ *)
(* C3: start_game on a session that has left the lobby is rejected:     *)
(* the store request of GamePlay.startGame and of GameLobby.startGame   *)
(* leaves the session row as it is, and the GamePlay handler ends       *)
(* there (so it publishes nothing and arms no timer).                   *)
(* ------------------------------------------------------------------ *)
C3_StartOutsideLobbyRejected ==
    [][NotInLobby =>
         /\ \A t \in Running : \A ok \in BOOLEAN :
               StartGameUpdate(t, ok) => (store' = store /\ tasks' = Finish(t))
         /\ \A p \in Pages : \A ok \in BOOLEAN :
               LobbyStartGame(p, ok) => store' = store]_vars

(* ------------------------------------------------------------------ *)
(* C4: with a quiz of zero questions GamePlay.startGame is rejected     *)
(* before any mutation: no start handler is ever in flight, the stored  *)
(* index stays null, nothing is published, no countdown or polling      *)
(* interval is armed and every page's question index stays NotStarted.  *)
(* ------------------------------------------------------------------ *)
C4_NoQuestionsNoStart ==
    N = 0 =>
      /\ store.cqi = Null
      /\ store.status # "completed"
      /\ bcast = InitBcast
      /\ intervals = <<>>
      /\ \A p \in Pages : /\ ui[p].cqi = NotStarted
                          /\ refs[p] = [timerRef |-> 0, pollingRef |-> 0]
      /\ \A t \in Running : t.kind = "fetch"

C4_Witness ==
    /\ N = 0
    /\ \E p \in Pages : ui[p].toast = "No questions" /\ StartView(p)

(* ------------------------------------------------------------------ *)
(* C5: a countdown interval raises expiry once: time_up{q} is           *)
(* published only by the firing of a timer for q that brings its        *)
(* countdown to 0, one message per firing, that firing cancels the      *)
(* interval (it cannot fire again) and schedules the switch to the      *)
(* results view once.                                                   *)
(* ------------------------------------------------------------------ *)
C5_ExpiryOncePerTimer ==
    [][\A q \in QIdx :
         bcast'.time_up[q] # bcast.time_up[q] =>
           /\ bcast'.time_up[q] = bcast.time_up[q] + 1
           /\ \E id \in DOMAIN intervals :
                 /\ intervals[id].kind = "timer"
                 /\ intervals[id].q = q
                 /\ intervals[id].time = 1
                 /\ id \notin DOMAIN intervals'
                 /\ \A j \in DOMAIN intervals' : intervals'[j] = intervals[j]
                 /\ tasks' = Spawn(Task(intervals[id].page, "results", "wait",
                                        q, intervals[id].cap))]_vars

C5_Witness ==
    \E p \in Pages :
       /\ ResultsView(p)
       /\ bcast.time_up[ui[p].cqi] = 1
       /\ refs[p].timerRef = 0

(* ------------------------------------------------------------------ *)
(* C6: while a question is active (a countdown for the stored current   *)
(* question is running) an advance fails and changes nothing: neither   *)
(* a new Next click nor an advance still in flight starts a handler,    *)
(* writes the session row, publishes on the channel or cancels or arms  *)
(* an interval.                                                         *)
(* ------------------------------------------------------------------ *)
AdvanceStep(t) ==
    \/ \E ok \in BOOLEAN : NextUpdate(t, ok)
    \/ NextSend(t)
    \/ NextTimeout(t)
    \/ \E ok \in BOOLEAN : FinishUpdate(t, ok)
    \/ FinishSend(t)

C6_AdvanceWhileActiveRejected ==
    [][QuestionActive =>
         /\ \A p \in Pages : NextQuestionClick(p) => UNCHANGED tasks
         /\ \A t \in Running :
               AdvanceStep(t) => UNCHANGED <<store, bcast, intervals>>]_vars

(* ------------------------------------------------------------------ *)
(* C7: advance from the results of question i.  The click starts the    *)
(* advance handler when i+1 < N and the completion handler otherwise.   *)
(* When the session is stored as active at i, a successful advance      *)
(* write leaves it active at i+1 (< N); a successful completion write   *)
(* leaves it completed with a null index, and the completion handler    *)
(* reports the game as ended only after game_ended was published.       *)
(* ------------------------------------------------------------------ *)
ClosedAt(i) == store.status = "active" /\ store.cqi = i

C7_AdvanceOutcome ==
    [][/\ \A p \in Pages :
            NextQuestionClick(p) =>
              \E k \in {"next", "finish"} :
                 /\ tasks' = Spawn(Task(p, k, IF k = "next" THEN "update" ELSE "calc",
                                        ui[p].cqi + 1, ui[p].cqi))
                 /\ (k = "next") <=> (ui[p].cqi + 1 < N)
       /\ \A t \in Running :
            /\ (ClosedAt(t.cap) /\ NextUpdate(t, TRUE)) =>
                  /\ t.cap + 1 < N
                  /\ store' = [status |-> "active", cqi |-> t.cap + 1]
            /\ (ClosedAt(t.cap) /\ FinishUpdate(t, TRUE)) =>
                  /\ t.cap + 1 >= N
                  /\ store' = [status |-> "completed", cqi |-> Null]
            /\ FinishAck(t) => bcast.game_ended >= 1]_vars

C7_Witness ==
    /\ N = 2
    /\ store = [status |-> "completed", cqi |-> Null]
    /\ bcast.question_changed[1] = 1
    /\ bcast.game_ended = 1
    /\ \E p \in Pages : ui[p].gameEnded /\ ui[p].cqi = 1

(* ------------------------------------------------------------------ *)
(* C8 (Scenario C): of two advance calls a page issues in a row for     *)
(* the same next question, the second fails: never have two advance     *)
(* handlers of one page for the same target both got past the store     *)
(* write.                                                               *)
(* ------------------------------------------------------------------ *)
C8_SecondAdvanceFails ==
    \A t \in Running :
       (t.kind = "next" /\ t.pc # "update") =>
          /\ CopiesIn(t, tasks) = 1
          /\ \A u \in Running :
                (u.kind = "next" /\ u.page = t.page /\ u.idx = t.idx /\ u # t)
                   => u.pc = "update"

(* ------------------------------------------------------------------ *)
(* C9: duplicate host commands repeat no side effect: game_ended is     *)
(* published at most once and the timer of a question is armed (and     *)
(* question_started published) at most once.                            *)
(* ------------------------------------------------------------------ *)
C9_NoRepeatedSideEffects ==
    /\ bcast.game_ended <= 1
    /\ \A q \in QIdx : bcast.question_started[q] <= 1

(* ------------------------------------------------------------------ *)
(* C10: End Quiz moves the session to Completed: when its handler ends  *)
(* the stored status is completed, the stored index null and            *)
(* game_ended has been published by it.                                 *)
(* ------------------------------------------------------------------ *)
C10_EndQuizCompletes ==
    [][\A t \in Running :
         EndQuizDone(t) =>
           /\ store'.status = "completed"
           /\ store'.cqi = Null
           /\ bcast'.game_ended > 0]_vars

(* ------------------------------------------------------------------ *)
(* C11: a session stored as completed is immutable: no step of a host   *)
(* handler (GameLobby.startGame, GamePlay.startGame, nextQuestion)      *)
(* changes its stored status or current_question_index afterwards.      *)
(* ------------------------------------------------------------------ *)
C11_CompletedImmutable ==
    [][store.status = "completed" => store' = store]_vars

(* ------------------------------------------------------------------ *)
(* C12: state-transition commands of a session are serialized: while    *)
(* one start, advance or completion handler is in flight (before its    *)
(* store write, or awaiting the write or the broadcast) no other one    *)
(* is, so their steps cannot interleave.                                *)
(* ------------------------------------------------------------------ *)
TransitionsInFlight ==
    [t \in {u \in DOMAIN tasks : /\ u.kind \in {"start", "next", "finish"}
                                 /\ u.pc \in {"calc", "update", "send", "ack"}}
        |-> tasks[t]]

C12_CommandsSerialized == BagCardinality(TransitionsInFlight) <= 1

(* ------------------------------------------------------------------ *)
(* C13: no orphaned timers: once the host page has left a question      *)
(* (expiry, advance, End Quiz, leaving the page) no countdown or        *)
(* polling interval of it is still armed, so none can fire later:       *)
(* every armed interval belongs to a mounted page.                      *)
(* ------------------------------------------------------------------ *)
C13_NoOrphanedTimers ==
    \A id \in DOMAIN intervals : ui[intervals[id].page].phase \in Mounted

(* ------------------------------------------------------------------ *)
(* C14 (Scenario E): when the host page is reloaded while the countdown *)
(* of the stored current question is running, the resume path of        *)
(* fetchGameData arms a countdown for that question again, and it       *)
(* starts from what the interrupted countdown showed, within one tick.  *)
(* ------------------------------------------------------------------ *)
C14_ResumeKeepsRemainingTime ==
    [][\A t \in Running :
         (/\ FetchDone(t)
          /\ resumeLeft[t.page] > 0
          /\ store.status = "active" /\ t.idx = store.cqi)
         => \E id \in DOMAIN intervals' :
               /\ intervals'[id].page = t.page
               /\ intervals'[id].kind = "timer"
               /\ intervals'[id].q = t.idx
               /\ intervals'[id].time \in {resumeLeft[t.page] - 1, resumeLeft[t.page]}]_vars

(* ------------------------------------------------------------------ *)
(* C15: while a page runs the countdown of the question it shows, the   *)
(* displayed seconds never increase and never go below 0; the display   *)
(* starts at the question's time limit when the countdown is armed;     *)
(* and expiry (time_up) is raised exactly by the step that brings the   *)
(* display to 0.                                                        *)
(* ------------------------------------------------------------------ *)
CountingDown(u, iv, p) ==
    /\ u[p].phase = "ready"
    /\ \E id \in DOMAIN iv :
          iv[id].page = p /\ iv[id].kind = "timer" /\ iv[id].q = u[p].cqi

C15_DisplayedCountdown ==
    [][\A p \in Pages :
         /\ (/\ CountingDown(ui, intervals, p)
             /\ CountingDown(ui', intervals', p)
             /\ ui'[p].cqi = ui[p].cqi)
            => (ui'[p].timeLeft <= ui[p].timeLeft /\ ui'[p].timeLeft >= 0)
         /\ (~CountingDown(ui, intervals, p) /\ CountingDown(ui', intervals', p))
            => ui'[p].timeLeft = TimeLimit(ui'[p].cqi)
         /\ (CountingDown(ui, intervals, p) /\ ui'[p].phase = "ready")
            => ((bcast'.time_up[ui[p].cqi] = bcast.time_up[ui[p].cqi] + 1)
                 <=> (ui[p].timeLeft > 0 /\ ui'[p].timeLeft = 0))]_vars

(* ------------------------------------------------------------------ *)
(* C16: an advance handler entering question j = i+1 (its startTimer    *)
(* call) resets the tally scope and arms the timer afresh: the page's   *)
(* tally has exactly the keys of question j's options, every count 0    *)
(* and total 0, the results view is hidden, the display and the armed   *)
(* countdown start from the time limit of question j, the page runs no  *)
(* other countdown, question_changed{j} has been published and          *)
(* question_started{j} is published by this step.                       *)
(* ------------------------------------------------------------------ *)
C16_AdvanceResetsTally ==
    [][\A t \in Running :
         (NextTimeout(t) /\ ui[t.page].phase \in Mounted) =>
           LET p == t.page
               j == t.idx
           IN  /\ j = t.cap + 1
               /\ DOMAIN ui'[p].answerStats = {UniqueKey(j, o) : o \in Options(j)}
               /\ \A k \in DOMAIN ui'[p].answerStats : ui'[p].answerStats[k] = 0
               /\ ui'[p].totalAnswers = 0
               /\ ~ui'[p].showResults
               /\ ui'[p].timeLeft = TimeLimit(j)
               /\ \A id \in DOMAIN intervals' :
                     (intervals'[id].page = p /\ intervals'[id].kind = "timer")
                        => /\ id = refs'[p].timerRef
                           /\ intervals'[id].q = j
                           /\ intervals'[id].time = TimeLimit(j)
               /\ refs'[p].timerRef \in DOMAIN intervals'
               /\ bcast.question_changed[j] >= 1
               /\ bcast'.question_started[j] = bcast.question_started[j] + 1]_vars

C16_Witness ==
    \E p \in Pages :
       /\ Ready(p) /\ ui[p].cqi = 1
       /\ \E a \in answers : a.q = 0
       /\ ui[p].totalAnswers = 0
       /\ DOMAIN ui[p].answerStats = {UniqueKey(1, o) : o \in Options(1)}
       /\ ui[p].timeLeft = TimeLimit(1)
       /\ refs[p].timerRef \in DOMAIN intervals
       /\ bcast.question_started[1] = 1

(* ------------------------------------------------------------------ *)
(* C17: in every state of every host page's tally the per-option        *)
(* counts add up to the tally total, and the total is at most the       *)
(* number of players of the session.                                    *)
(* ------------------------------------------------------------------ *)
SumOfCounts(f) ==
    LET sum[D \in SUBSET DOMAIN f] ==
          IF D = {} THEN 0
          ELSE LET k == CHOOSE x \in D : TRUE IN f[k] + sum[D \ {k}]
    IN  sum[DOMAIN f]

C17_TallySumIsTotal ==
    \A p \in Pages :
       /\ SumOfCounts(ui[p].answerStats) = ui[p].totalAnswers
       /\ ui[p].totalAnswers <= NP

C17_Witness ==
    \E p \in Pages :
       /\ Ready(p) /\ ui[p].cqi >= 0
       /\ ui[p].totalAnswers = NP /\ NP >= 1
       /\ \E k \in DOMAIN ui[p].answerStats : ui[p].answerStats[k] >= 1

(* ------------------------------------------------------------------ *)
(* C18: the tally kept by live incremental aggregation equals the       *)
(* tally rebuilt from the stored answers: when a page that shows the    *)
(* current question holds the rebuilt tally and an answer is accepted   *)
(* whose push (insert notification, answer_submitted broadcast or       *)
(* both) reaches the page, the page's tally is again the tally rebuilt  *)
(* from the stored answers.                                             *)
(* ------------------------------------------------------------------ *)
C18_LiveEqualsRebuilt ==
    [][\A p \in Pages, pl \in 1..MaxPlayers,
          o \in 0..(MaxQuestions * MinOptions + MinOptions),
          got \in SUBSET (Pages \X {"insert", "broadcast"}) :
         (/\ SubmitAnswer(pl, o, got)
          /\ got \cap ({p} \X {"insert", "broadcast"}) # {}
          /\ Ready(p) /\ ui[p].cqi = store.cqi
          /\ ui[p].answerStats = RebuiltStats(store.cqi)
          /\ ui[p].totalAnswers = RebuiltTotal(store.cqi))
         => /\ ui'[p].answerStats = RebuiltStats(store.cqi)'
            /\ ui'[p].totalAnswers = RebuiltTotal(store.cqi)']_vars

(* ------------------------------------------------------------------ *)
(* C19: at most one answer per (player, question) is accepted and       *)
(* counted: a stored answer is never removed or overwritten, a step     *)
(* stores at most one new answer and only for a (player, question)      *)
(* without one, and no page's tally or score counts a player twice      *)
(* for a question.                                                      *)
(* ------------------------------------------------------------------ *)
AnsweredBy(rows, pl, i) == {a \in rows : a.player = pl /\ a.q = i}

C19_OneAnswerPerPlayerQuestion ==
    [][/\ answers \subseteq answers'
       /\ Cardinality(answers' \ answers) <= 1
       /\ \A a \in answers' \ answers : AnsweredBy(answers, a.player, a.q) = {}
       /\ \A pl \in 1..MaxPlayers, i \in QIdx :
             Cardinality(AnsweredBy(answers', pl, i)) <= 1
       /\ \A p \in Pages :
             /\ \A k \in DOMAIN ui'[p].answerStats :
                   ui'[p].answerStats[k]
                      <= Cardinality({pl \in 1..MaxPlayers :
                                         AnsweredBy(answers', pl, k[1]) # {}})
             /\ \A pl \in DOMAIN ui'[p].score :
                   ui'[p].score[pl]
                      <= PointsPerCorrect
                           * Cardinality({i \in QIdx :
                                            AnsweredBy(answers', pl, i) # {}})]_vars

C19_Witness ==
    /\ store.status = "active"
    /\ cmds < MaxCmds
    /\ \E a \in answers, p \in Pages :
          /\ a.q = store.cqi
          /\ Ready(p)
          /\ a.player \in DOMAIN ui[p].score
          /\ ui[p].score[a.player] = PointsPerCorrect
          /\ ui[p].totalAnswers = 1

(* ------------------------------------------------------------------ *)
(* C20: the score a host page shows for a player is always 100 times    *)
(* the number of the player's stored correct answers, whatever          *)
(* happened to the notifications and across page reloads.               *)
(* ------------------------------------------------------------------ *)
C20_ScoreFromAnswerLog ==
    \A p \in Pages :
       Ready(p) =>
          \A pl \in DOMAIN ui[p].score :
             ui[p].score[pl]
                = PointsPerCorrect
                    * Cardinality({a \in answers : a.player = pl /\ IsCorrect(a.opt)})

(* ------------------------------------------------------------------ *)
(* C21: once the countdown of the stored current question i has         *)
(* expired (time_up sent, no countdown of i armed), no answer for i is  *)
(* stored any more, and no host page changes a score or its tally       *)
(* because of one.                                                      *)
(* ------------------------------------------------------------------ *)
QuestionClosed(i) ==
    /\ store.status = "active" /\ store.cqi = i
    /\ bcast.time_up[i] >= 1
    /\ \A id \in DOMAIN intervals :
          ~(intervals[id].kind = "timer" /\ intervals[id].q = i)

C21_LateAnswerRejected ==
    [][\A i \in QIdx :
          QuestionClosed(i) =>
             /\ {a \in answers' : a.q = i} = {a \in answers : a.q = i}
             /\ answers' # answers =>
                   \A p \in Pages :
                      /\ ui'[p].score = ui[p].score
                      /\ ui'[p].answerStats = ui[p].answerStats
                      /\ ui'[p].totalAnswers = ui[p].totalAnswers]_vars

(* ------------------------------------------------------------------ *)
(* C22: while a host page shows the stored current question i and not   *)
(* yet its results, a displayed tally that differs from the tally of    *)
(* the stored answers for i is brought in line with it by the backup    *)
(* refresh, with no push notification needed (or the page stops         *)
(* showing question i as open).                                         *)
(* ------------------------------------------------------------------ *)
ShowingOpen(p, i) ==
    /\ Ready(p) /\ ui[p].cqi = i /\ ~ui[p].showResults
    /\ store.status = "active" /\ store.cqi = i /\ i < N

TallyInSync(p, i) ==
    /\ ui[p].answerStats = RebuiltStats(i)
    /\ ui[p].totalAnswers = RebuiltTotal(i)

C23_LoopStopsOnlyWhenStale ==
    [][\A id \in DOMAIN intervals :
          /\ (TimerTick(id) /\ intervals[id].time = 1) =>
                \A h \in DOMAIN intervals' :
                   ~(intervals'[h].kind = "poll"
                       /\ intervals'[h].page = intervals[id].page)
          /\ PollTick(id) =>
                \/ intervals[id].q # ui[intervals[id].page].cqi
                \/ intervals[id].q # store.cqi]_vars

(* ------------------------------------------------------------------ *)
(* C24: an answered refresh for question i leaves the page with the     *)
(* tally of the stored answers of i, however often it runs, when the    *)
(* page is at question i, and leaves the page's tally alone when the    *)
(* page is at another question by then.                                 *)
(* ------------------------------------------------------------------ *)
C24_StaleRefreshIgnored ==
    [][\A t \in Running :
          (RefreshDone(t, TRUE) /\ ui[t.page].phase \in Mounted) =>
             IF ui[t.page].cqi = t.idx
             THEN /\ ui'[t.page].answerStats = RebuiltStats(t.idx)
                  /\ ui'[t.page].totalAnswers = RebuiltTotal(t.idx)
             ELSE /\ ui'[t.page].answerStats = ui[t.page].answerStats
                  /\ ui'[t.page].totalAnswers = ui[t.page].totalAnswers]_vars

(* ------------------------------------------------------------------ *)
(* C25: when the store write of Start Game, of an advance or of the     *)
(* completion fails, the handler ends there with an error shown: the    *)
(* stored session, the page's question index, countdown and tally, the  *)
(* armed intervals and the published broadcasts stay as they were.      *)
(* ------------------------------------------------------------------ *)
C25_FailedWriteAdvancesNothing ==
    [][\A t \in Running :
          (\/ StartGameUpdate(t, FALSE)
           \/ NextUpdate(t, FALSE)
           \/ FinishUpdate(t, FALSE)) =>
             /\ store' = store
             /\ intervals' = intervals
             /\ bcast' = bcast
             /\ tasks' = Finish(t)
             /\ ui[t.page].phase \in Mounted =>
                   /\ ui'[t.page].toast # ""
                   /\ ui'[t.page].cqi = ui[t.page].cqi
                   /\ ui'[t.page].timeLeft = ui[t.page].timeLeft
                   /\ ui'[t.page].answerStats = ui[t.page].answerStats
                   /\ ui'[t.page].totalAnswers = ui[t.page].totalAnswers]_vars

(* ------------------------------------------------------------------ *)
(* C26: the transition does not wait for a publish: while game_started  *)
(* is published but not yet acknowledged the countdown of question 0 is *)
(* already armed on the page, and while game_ended is published but not *)
(* yet acknowledged the page already shows the game as ended.           *)
(* ------------------------------------------------------------------ *)
C26_PublishDoesNotBlock ==
    \A t \in Running :
       (t.pc = "ack" /\ ui[t.page].phase \in Mounted) =>
          /\ t.kind = "start" =>
                \E id \in DOMAIN intervals :
                   /\ intervals[id].page = t.page
                   /\ intervals[id].kind = "timer" /\ intervals[id].q = 0
          /\ t.kind = "finish" => ui[t.page].gameEnded

(* ------------------------------------------------------------------ *)
(* C27: the percentage shown for an option is 100 * count / total       *)
(* rounded to the nearest integer (halves up), and is 0 for every       *)
(* count when the total is 0.                                           *)
(* ------------------------------------------------------------------ *)
C27_PercentageRounded ==
    shown.view = "option" =>
       IF shown.totalAnswers = 0
       THEN shown.percentage = 0
       ELSE /\ 2 * shown.percentage * shown.totalAnswers - shown.totalAnswers
                  <= 2 * 100 * shown.answerCount
            /\ 2 * 100 * shown.answerCount
                  < 2 * shown.percentage * shown.totalAnswers + shown.totalAnswers

(* ------------------------------------------------------------------ *)
(* C28: Scenario A.  When the host page shows the results of the        *)
(* question, the three answers X, X, Y are stored and no refresh is     *)
(* pending, the page has tally {X: 2, Y: 1}, total 3, percentages 67    *)
(* and 33, and scores 100, 100, 0.                                      *)
(* ------------------------------------------------------------------ *)
C28_ScenarioA ==
    \A p \in Pages :
       (/\ ResultsView(p) /\ ui[p].cqi = 0
        /\ answers = ScenarioAnswers
        /\ \A t \in Running : ~(t.page = p /\ t.kind = "refresh")) =>
          /\ ui[p].answerStats
                = (UniqueKey(0, OptionX) :> 2 @@ UniqueKey(0, OptionY) :> 1)
          /\ ui[p].totalAnswers = 3
          /\ Percentage(ui[p].answerStats[UniqueKey(0, OptionX)], ui[p].totalAnswers) = 67
          /\ Percentage(ui[p].answerStats[UniqueKey(0, OptionY)], ui[p].totalAnswers) = 33
          /\ ui[p].score = <<PointsPerCorrect, PointsPerCorrect, 0>>

(* ------------------------------------------------------------------ *)
(* C29: every leaderboard lists its players (the in-game one the first  *)
(* five) by score descending, equal scores by ascending total time      *)
(* taken, players equal on both in the order of the input.              *)
(* ------------------------------------------------------------------ *)
RankedBefore(a, b) ==
    \/ a.score > b.score
    \/ a.score = b.score /\ a.time < b.time
    \/ a.score = b.score /\ a.time = b.time /\ a.id < b.id

C29_LeaderboardOrder ==
    shown.view = "leaderboard" =>
       LET rows == shown.rows
           listed == {rows[i] : i \in DOMAIN rows}
           all == {shown.players[i] : i \in DOMAIN shown.players}
           size == IF shown.board = "top" /\ Len(shown.players) > TopCount
                   THEN TopCount ELSE Len(shown.players)
       IN  /\ Len(rows) = size
           /\ listed \subseteq all
           /\ \A i, j \in DOMAIN rows : i < j => RankedBefore(rows[i], rows[j])
           /\ \A a \in listed, b \in all \ listed : RankedBefore(a, b)

(* ------------------------------------------------------------------ *)
(* C30: when the user who opens the host page is not the session's     *)
(* host, or the session row cannot be read, the load is abandoned and  *)
(* not retried: that page never holds a question index, a tally, a     *)
(* player score, a timer or a polling loop, no task of it is left once *)
(* it was turned away, and the answer handlers it subscribed at mount  *)
(* change nothing of a page that was turned away.                      *)
(* ------------------------------------------------------------------ *)
TurnedAway == {"denied", "gone"}

NothingLoaded(p) ==
    \A f \in (DOMAIN InitUi) \ {"phase", "toast"} : ui[p][f] = InitUi[f]

NothingArmed(p) ==
    /\ refs[p] = [timerRef |-> 0, pollingRef |-> 0]
    /\ \A h \in DOMAIN intervals : intervals[h].page # p

C30_AbandonedLoadsNothing ==
    /\ [](/\ ui[Visitor].phase \in {"unused", "loading", "denied"}
          /\ NothingLoaded(Visitor)
          /\ NothingArmed(Visitor)
          /\ ui[Visitor].phase = "denied" => \A t \in Running : t.page # Visitor)
    /\ [][\A p \in AllPages :
            (ui[p].phase \in TurnedAway /\ ui'[p].phase = ui[p].phase)
               => ui'[p] = ui[p]]_vars
    /\ [][\A t \in Running :
            (t.pc = "session" /\ ui[t.page].phase = "loading"
               /\ ui'[t.page].phase \in TurnedAway /\ tasks' # tasks)
               => (/\ ui'[t.page] = [InitUi EXCEPT !.phase = ui'[t.page].phase]
                   /\ \A u \in BagToSet(tasks') : u.page # t.page \/ u \in Running \ {t}
                   /\ store' = store /\ intervals' = intervals /\ refs' = refs)]_vars

(* the visitor was turned away while the host's page counted an answer *)
C30_Witness ==
    /\ ui[Visitor].phase = "denied"
    /\ answers # {}
    /\ \E p \in Pages : ui[p].phase = "ready" /\ ui[p].totalAnswers > 0

(* ------------------------------------------------------------------ *)
(* C31: every ratio of the post-game summary is a finite number, 0     *)
(* when its denominator is 0: overall accuracy, the accuracy and       *)
(* average time of each question and each player, the average score    *)
(* (also with no players) and the participation rate (also with no     *)
(* players or no questions).                                           *)
(* ------------------------------------------------------------------ *)
IsNumber(x) == x.kind = "finite"

C31_RatiosGuarded ==
    shown.view = "summary" =>
       /\ IsNumber(shown.overview.overallAccuracy)
       /\ IsNumber(shown.overview.averageScore)
       /\ IsNumber(shown.overview.participationRate)
       /\ \A i \in DOMAIN shown.questionStats :
             IsNumber(shown.questionStats[i].accuracy)
                /\ IsNumber(shown.questionStats[i].averageTime)
       /\ \A i \in DOMAIN shown.playerStats :
             IsNumber(shown.playerStats[i].accuracy)
                /\ IsNumber(shown.playerStats[i].averageTime)

(* ------------------------------------------------------------------ *)
(* C32: whenever no save is running, every question row of every       *)
(* stored quiz has exactly one option with is_correct = true, whatever *)
(* editor operations (loadExistingQuiz, addOption, removeOption,       *)
(* updateOption, setCorrectOption) came before the saves.              *)
(* ------------------------------------------------------------------ *)
C32_ExactlyOneCorrect ==
    createQuiz.save.pc = "idle" =>
       \A q \in DOMAIN quizzes : \A i \in DOMAIN quizzes[q] :
          CorrectCount(quizzes[q][i]) = 1

(* ------------------------------------------------------------------ *)
(* C39: when a step of saveQuiz on an existing quiz fails (the update  *)
(* of the quiz, the delete of its old questions, the insert of a       *)
(* question or of its options), the question rows the quiz had when    *)
(* the save began are still stored, each with all its options.         *)
(* ------------------------------------------------------------------ *)
SaveStepFailed ==
    /\ createQuiz.save.pc # "idle" /\ createQuiz.save.isEditing
    /\ failures' = failures + 1

IsPrefix(a, b) == Len(a) <= Len(b) /\ \A i \in DOMAIN a : a[i] = b[i]

C39_SaveAllOrNothing ==
    [][SaveStepFailed =>
         IsPrefix(createQuiz.save.before, quizzes'[createQuiz.save.quiz])]_vars

(* ------------------------------------------------------------------ *)
(* C33: with the host's page kept running (intervals fire, requests    *)
(* answer), every question that is the stored current question of the  *)
(* active session eventually expires (time_up is published for it),    *)
(* unless the session leaves that question or no host page is open:    *)
(* after the start, after an advance and after a reload of the page.   *)
(* ------------------------------------------------------------------ *)
StoredCurrent(i) == store.status = "active" /\ store.cqi = i

HostRunning == \E p \in Pages : ui[p].phase \in Mounted

Expired(i) == bcast.time_up[i] >= 1

C33_QuestionEventuallyCloses ==
    \A i \in 0..(MaxQuestions - 1) :
       (StoredCurrent(i) /\ i < N /\ HostRunning)
          ~> (Expired(i) \/ ~StoredCurrent(i) \/ ~HostRunning)

(* ------------------------------------------------------------------ *)
(* C34: on a page that shows question i, the keys of answerStats are   *)
(* the q<i>_<option id> keys of the options of question i and          *)
(* totalAnswers counts stored answers of question i only, in every     *)
(* state, also when a refresh begun for a question answers after the   *)
(* page has advanced.                                                  *)
(* ------------------------------------------------------------------ *)
ShowsQuestion(p, i) == Ready(p) /\ ~ui[p].gameEnded /\ ui[p].cqi = i /\ i < N

TallyOfQuestion(p, i) ==
    /\ DOMAIN ui[p].answerStats = {UniqueKey(i, o) : o \in Options(i)}
    /\ ui[p].totalAnswers <= RebuiltTotal(i)

C34_TallyKeysCurrent ==
    \A p \in Pages, i \in 0..(MaxQuestions - 1) :
       ShowsQuestion(p, i) => TallyOfQuestion(p, i)

(* ------------------------------------------------------------------ *)
(* C35: a host page instance never has more than one countdown         *)
(* interval and never more than one stats-polling interval armed:      *)
(* startTimer and startStatsPolling cancel the one before, also when   *)
(* two arming calls follow each other directly.                        *)
(* ------------------------------------------------------------------ *)
Armed(p, kind) ==
    {id \in DOMAIN intervals : intervals[id].page = p /\ intervals[id].kind = kind}

C35_OneTimerOnePoll ==
    \A p \in Pages :
       /\ Cardinality(Armed(p, "timer")) <= 1
       /\ Cardinality(Armed(p, "poll")) <= 1
       /\ Armed(p, "timer") \subseteq {refs[p].timerRef}
       /\ Armed(p, "poll") \subseteq {refs[p].pollingRef}

(* startTimer has run twice for one question on a page, the second call    *)
(* while the countdown and the polling loop of the first were armed, and   *)
(* one of each is armed                                                    *)
C35_Witness ==
    \E p \in Pages, i \in 0..(MaxQuestions - 1) :
       /\ bcast.question_started[i] >= 2
       /\ bcast.time_up[i] = 0
       /\ Cardinality(Armed(p, "timer")) = 1
       /\ Cardinality(Armed(p, "poll")) = 1

(* ------------------------------------------------------------------ *)
(* C36: results are shown for question i only after the countdown of   *)
(* i has expired: whenever a page has showResults set, it has no       *)
(* countdown and no polling interval armed, its timeLeft is 0, time_up *)
(* was raised for the question it shows and no final refresh of it is  *)
(* still pending.                                                      *)
(* ------------------------------------------------------------------ *)
FinalRefreshPending(p) == \E t \in Running : t.page = p /\ t.kind = "results"

C36_ResultsOnlyAfterExpiry ==
    \A p \in Pages :
       (Ready(p) /\ ui[p].showResults) =>
          /\ Armed(p, "timer") = {} /\ Armed(p, "poll") = {}
          /\ ui[p].timeLeft = 0
          /\ ui[p].cqi \in 0..(N - 1) /\ Expired(ui[p].cqi)
          /\ ~FinalRefreshPending(p)

(* ------------------------------------------------------------------ *)
(* C37: once the lobby's initial fetch has set the player list and no  *)
(* join notification is still on its way, the list holds every         *)
(* game_players row of the session exactly once, whatever the order of *)
(* the joins, the fetch and the notifications was.                     *)
(* ------------------------------------------------------------------ *)
Occurrences(list, id) == Cardinality({k \in DOMAIN list : list[k] = id})

LobbySettled == lobby.pc = "done" /\ lobby.subscribed /\ lobby.inflight = {}

C37_EveryPlayerOnce ==
    LobbySettled =>
       /\ \A id \in lobby.rows : Occurrences(lobby.players, id) = 1
       /\ \A k \in DOMAIN lobby.players : lobby.players[k] \in lobby.rows

(* ------------------------------------------------------------------ *)
(* C38: in the post-game summary every player's statistics, and in the *)
(* CSV export every player's per-question cell, are those of the       *)
(* answers of that player (by player id), whether or not another       *)
(* player of the session has the same display name.                    *)
(* ------------------------------------------------------------------ *)
OwnAnswers(i) == {a \in shown.allAnswers : a.player_id = i}

OwnAnswer(i, q) == {a \in OwnAnswers(i) : a.question_index = q}

C38_StatsOfOwnAnswers ==
    /\ shown.view = "summary" =>
          \A i \in DOMAIN shown.players :
             shown.playerStats[i] = StatsRow(OwnAnswers(i))
    /\ shown.view = "csv" =>
          \A c \in DOMAIN shown.cells :
             /\ shown.cells[c].answered <=> OwnAnswer(c[1], c[2]) # {}
             /\ shown.cells[c].answered =>
                   \E a \in OwnAnswer(c[1], c[2]) :
                      /\ shown.cells[c].player_id = a.player_id
                      /\ shown.cells[c].is_correct = a.is_correct

====
